---- MODULE Spec2Model ----
(***************************************************************************)
(* Attribution engine of the Unified Attribution Framework:                *)
(*   src/src/core/shapley.py   FastShapleyAttribution                      *)
(*   src/src/core/markov.py    MarkovAttribution                           *)
(*   src/src/core/hybrid.py    HybridShapleyMarkov                         *)
(* Python floats are modelled as exact rationals <<numerator, denominator>>*)
(* in lowest terms with a positive denominator, so that equality of two    *)
(* results is equality of the pairs; rounding error is not modelled.       *)
(***************************************************************************)
EXTENDS Integers, Sequences, FiniteSets, TLC

VARIABLES
    \* FastShapleyAttribution
    players,                \* self.players
    value_function,         \* self.value_function, a table coalition -> value
    pc,                     \* position of the caller / of the running method
    n_samples,              \* argument of monte_carlo_shapley
    marginal_contributions, \* player -> list of recorded marginals
    shapley_values,         \* the dict returned by the method that ran
    samples_done,           \* completed iterations of the sampling loop
    raised,                 \* the exception that left the method, or "none"
    n_evals,                \* number of calls of self.value_function so far
    \* MarkovAttribution
    journeys,               \* self.journeys
    conversions,            \* self.conversions
    channels,               \* self.channels
    excluded_channel,       \* argument of the last build_transition_matrix call
    transition_probs,       \* what that call returned
    removal_effects,        \* the local removal_effects of compute_removal_effects
                            \* when its loop over the channels ended
    attribution,            \* what the last compute_removal_effects call returned
    markov_returned,        \* the MarkovAttribution methods that have returned
    markov_raised,          \* the exception that left one of them, or "none"
    \* three FastShapleyAttribution over the same players (test_additivity)
    value1,                 \* value function of shapley1
    value2,                 \* value function of shapley2
    values1,                \* what shapley1.exact_shapley() returned
    values2,                \* what shapley2.exact_shapley() returned
    values_combined,        \* what shapley_combined.exact_shapley() returned
    additivity_calls,       \* how many of the three calls have returned
    \* HybridShapleyMarkov (its journeys, conversions and channels are the ones
    \* it hands to its MarkovAttribution)
    alpha,                  \* argument of the last compute_hybrid_attribution call
    shapley_attr,           \* its local shapley_attr
    markov_attr,            \* its local markov_attr
    hybrid_attr,            \* what it returned
    hybrid_called,          \* whether the call has been made and is over
    hybrid_raised,          \* the exception that left it, or "none"
    \* PrivateAttribution
    privacy_pc,             \* "new" before __init__ has run, then "ready"
    privacy_last,           \* the method of the instance that ran last
    epsilon,                \* self.epsilon
    delta,                  \* self.delta
    privacy_spent,          \* self.privacy_spent
    privacy_input,          \* argument of the last privatize_attribution call
    noisy_attribution,      \* what the last privatize_attribution call returned
    privacy_raised,         \* the exception that left the last call, or "none"
    privacy_calls,          \* privatize_attribution calls made so far
    privacy_successes,      \* how many of them returned
    budget_remaining,       \* what the last privacy_budget_remaining call returned
    caller_pc,              \* position of each concurrent caller in privatize_attribution
    caller_loaded,          \* the self.privacy_spent each caller has read for its +=
    \* UniversalAttributionAxioms
    tolerance,              \* self.tolerance
    axiom_method,           \* the verify_* method that was called, or "none"
    axiom_attributions,     \* its argument attributions (game1_attributions)
    axiom_contributions,    \* its argument contribution_values (game2_attributions)
    axiom_combined,         \* its argument combined_attributions
    axiom_total,            \* its argument total_outcome
    axiom_satisfied,        \* first component of what it returned
    axiom_details,          \* second component of what it returned
    axiom_raised,           \* the exception that left it, or "none"
    \* UniversalAttributionAxioms.compute_universal_attribution and its caller
    universal_entities,     \* the argument entities, a list
    contribution_func1,     \* the argument contribution_func of the first game, a table
    contribution_func2,     \* the contribution_func of the second game
    universal_outcome,      \* the argument outcome_value, the same in every call
    universal_result1,      \* the AttributionResult returned for the first game
    universal_result2,      \* the AttributionResult returned for the second game
    universal_combined,     \* the AttributionResult returned for the sum of the games
    universal_calls,        \* how many of the three calls have returned
    \* CompleteUnifiedFramework
    api_data,               \* self.data, the rows of the table, each a channel -> number map
    api_channels,           \* self.channels
    api_conversions,        \* self.conversions
    api_epsilon,            \* self.epsilon
    api_results,            \* the dict compute_complete_attribution returned
    api_elapsed,            \* the elapsed time it returned
    api_raised,             \* the exception that left it, or "none"
    api_called,             \* whether compute_complete_attribution has been called
    \* the caller of FastShapleyAttribution.monte_carlo_shapley
    sampled                 \* the permutations np.random.permutation returned to the call, in order

shapley_vars == <<players, value_function, pc, n_samples, marginal_contributions,
                  shapley_values, samples_done, raised, n_evals>>

markov_vars == <<journeys, conversions, channels, excluded_channel,
                 transition_probs, removal_effects, attribution,
                 markov_returned, markov_raised>>

additivity_vars == <<value1, value2, values1, values2, values_combined,
                     additivity_calls>>

hybrid_vars == <<alpha, shapley_attr, markov_attr, hybrid_attr, hybrid_called,
                 hybrid_raised>>

privacy_vars == <<privacy_pc, privacy_last, epsilon, delta, privacy_spent, privacy_input,
                  noisy_attribution, privacy_raised, privacy_calls,
                  privacy_successes, budget_remaining, caller_pc, caller_loaded>>

axiom_vars == <<tolerance, axiom_method, axiom_attributions, axiom_contributions,
                axiom_combined, axiom_total, axiom_satisfied, axiom_details,
                axiom_raised>>

universal_vars == <<universal_entities, contribution_func1, contribution_func2,
                    universal_outcome, universal_result1, universal_result2,
                    universal_combined, universal_calls>>

api_vars == <<api_data, api_channels, api_conversions, api_epsilon, api_results,
              api_elapsed, api_raised, api_called>>

sampling_vars == <<sampled>>

vars == <<shapley_vars, markov_vars, additivity_vars, hybrid_vars, privacy_vars,
          axiom_vars, universal_vars, api_vars, sampling_vars>>

----------------------------------------------------------------------------
\* Bounds of the model

\* values a caller's value function gives a coalition: 0..MaxValue
MaxValue == 1

\* largest n_samples a caller passes to monte_carlo_shapley
MaxSamples == 2

\* contributor identifiers of the small games (the spec's example scenario)
Contributors == {"A", "B", "C"}

\* the players of test_exact_too_large, in list order
LargePlayers == <<"P01", "P02", "P03", "P04", "P05", "P06",
                  "P07", "P08", "P09", "P10", "P11">>

\* number of journeys of a generated corpus: 0..MaxJourneys
MaxJourneys == 2

\* length of a generated journey: 0..MaxJourneyLen
MaxJourneyLen == 2

\* length of a generated journey of a HybridShapleyMarkov: 0..MaxHybridJourneyLen
MaxHybridJourneyLen == 1

\* the n_samples compute_shapley_component passes to monte_carlo_shapley; the
\* source passes 1000 (hybrid.py, line 68), the model runs the same loop for
\* this many samples
HybridSamples == 2

\* privatize_attribution calls a single caller makes on one PrivateAttribution
MaxCalls == 2

\* callers that share one PrivateAttribution and call privatize_attribution
\* concurrently
NumCallers == 3

\* most rounds in which monte_carlo_shapley draws every ordering once
MaxRounds == 2

\* most rows of the data table passed to a CompleteUnifiedFramework
MaxRows == 2

\* channel identifiers of the generated journeys: a corpus is drawn over one
\* of these alphabets; the empty string is a string like any other
JourneyAlphabets == {{"A", "B"}, {"A", ""}}

----------------------------------------------------------------------------
\* Exact rational arithmetic standing for Python float arithmetic

Abs(i) == IF i < 0 THEN -i ELSE i

RECURSIVE Gcd(_, _)
Gcd(a, b) == IF b = 0 THEN a ELSE Gcd(b, a % b)

\* the rational n/d (d # 0) in lowest terms
Rat(n, d) ==
    LET g == Gcd(Abs(n), Abs(d))
        s == IF d < 0 THEN -1 ELSE 1
    IN  <<s * (n \div g), s * (d \div g)>>

IntR(i) == <<i, 1>>

RAdd(a, b) ==
    LET g == Gcd(a[2], b[2])
        l == (a[2] \div g) * b[2]
    IN  Rat(a[1] * (l \div a[2]) + b[1] * (l \div b[2]), l)

RNeg(a) == <<-a[1], a[2]>>

RSub(a, b) == RAdd(a, RNeg(b))

RMul(a, b) ==
    LET g1 == Gcd(Abs(a[1]), b[2])
        g2 == Gcd(Abs(b[1]), a[2])
        h1 == IF g1 = 0 THEN 1 ELSE g1
        h2 == IF g2 = 0 THEN 1 ELSE g2
    IN  Rat((a[1] \div h1) * (b[1] \div h2), (a[2] \div h2) * (b[2] \div h1))

\* a / b for b # 0
RDiv(a, b) == RMul(a, IF b[1] < 0 THEN <<-b[2], -b[1]>> ELSE <<b[2], b[1]>>)

RLt(a, b) == a[1] * b[2] < b[1] * a[2]

RLe(a, b) == a[1] * b[2] <= b[1] * a[2]

RMax(a, b) == IF RLt(a, b) THEN b ELSE a

\* sum(d.values()) of a dict d with rational values
RECURSIVE RSumOver(_, _)
RSumOver(d, keys) ==
    IF keys = {} THEN IntR(0)
    ELSE LET k == CHOOSE x \in keys : TRUE
         IN  RAdd(d[k], RSumOver(d, keys \ {k}))

RSum(d) == RSumOver(d, DOMAIN d)

\* sum of a list of integers
RECURSIVE SeqSum(_)
SeqSum(s) == IF s = <<>> THEN 0 ELSE Head(s) + SeqSum(Tail(s))

\* sum of a list of rationals
RECURSIVE RSeqSum(_)
RSeqSum(s) == IF s = <<>> THEN IntR(0) ELSE RAdd(Head(s), RSeqSum(Tail(s)))

\* np.mean of a non-empty list
Mean(s) == RDiv(RSeqSum(s), IntR(Len(s)))

RECURSIVE Factorial(_)
Factorial(n) == IF n <= 0 THEN 1 ELSE n * Factorial(n - 1)

\* the elements of a list as a set
Range(s) == {s[i] : i \in DOMAIN s}

----------------------------------------------------------------------------
\* FastShapleyAttribution (src/src/core/shapley.py)

\* exact_shapley refuses more than this many players
ExactLimit == 10

\* the value functions a caller may pass over the player set P: every table
\* of values 0..MaxValue with value(empty coalition) = 0, as the data model
\* requires, and over fewer players than Contributors also the tables that
\* break that requirement
ValueTables(P) ==
    {[S \in SUBSET P |-> IntR(t[S])] :
        t \in {u \in [SUBSET P -> 0..MaxValue] :
                  u[{}] = 0 \/ Cardinality(P) < Cardinality(Contributors)}}

\* value function of test_exact_too_large: len(coalition)
SizeValue(P) == [S \in SUBSET P |-> IntR(Cardinality(S))]

\* value function of TestShapleyValues.setUp and of the spec's example
\* scenario: len(coalition) / 3
SimpleValue(P) == [S \in SUBSET P |-> Rat(Cardinality(S), 3)]

\* the player lists of the large games: the first n of LargePlayers
LargeSet(n) == {LargePlayers[i] : i \in 1..n}

\* all orderings np.random.permutation can return for the players P
AllPermutations(P) ==
    {f \in [1..Cardinality(P) -> P] : \A i, j \in DOMAIN f : f[i] = f[j] => i = j}

\* rotation of the first n LargePlayers by r
Rotation(n, r) == [i \in 1..n |-> LargePlayers[((i - 1 + r) % n) + 1]]

\* the orderings drawn in the model: all of them for a small game, the n
\* rotations of the list for a large one
SampledPermutations(P) ==
    IF P \subseteq Contributors THEN AllPermutations(P)
    ELSE {Rotation(Cardinality(P), r) : r \in 0..(Cardinality(P) - 1)}

\* perm[:i] as a coalition
Prefix(perm, i) == {perm[j] : j \in 1..i}

\* position of player p in perm
IndexOf(perm, p) == CHOOSE i \in DOMAIN perm : perm[i] = p

\* Marginal with value_without taken from the empty coalition instead of perm[:i]
Marginal_FromEmpty(v, perm, i) == RSub(v[Prefix(perm, i)], v[{}])

\* Marginal with the running coalition left out: only the player itself is valued
Marginal_Solo(v, perm, i) == RSub(v[{perm[i]}], v[{}])

\* lines 56-62: marginal of the player at (1-based) position i of perm
Marginal(v, perm, i) == RSub(v[Prefix(perm, i)], v[Prefix(perm, i - 1)])

\* ShapleyWeight with factorial(n - r) for factorial(n - r - 1)
ShapleyWeight_OffByOne(r, n) == Rat(Factorial(r) * Factorial(n - r), Factorial(n))

\* lines 96-98: weight of a coalition of size r among n players
ShapleyWeight(r, n) == Rat(Factorial(r) * Factorial(n - r - 1), Factorial(n))

\* ExactSum with the marginal of line 95 clipped at 0
RECURSIVE ExactSum_ClipMarginal(_, _, _, _, _)
ExactSum_ClipMarginal(v, n, p, S, rest) ==
    IF rest = {}
    THEN RMul(ShapleyWeight(Cardinality(S), n), RMax(IntR(0), RSub(v[S \cup {p}], v[S])))
    ELSE LET q == CHOOSE x \in rest : TRUE
         IN  RAdd(ExactSum_ClipMarginal(v, n, p, S \cup {q}, rest \ {q}),
                  ExactSum_ClipMarginal(v, n, p, S, rest \ {q}))

\* lines 84-100, for one player p: the weighted marginals of p summed over the
\* coalitions S \cup T, T ranging over the subsets of rest (p in neither)
RECURSIVE ExactSum(_, _, _, _, _)
ExactSum(v, n, p, S, rest) ==
    IF rest = {}
    THEN RMul(ShapleyWeight(Cardinality(S), n), RSub(v[S \cup {p}], v[S]))
    ELSE LET q == CHOOSE x \in rest : TRUE
         IN  RAdd(ExactSum(v, n, p, S \cup {q}, rest \ {q}),
                  ExactSum(v, n, p, S, rest \ {q}))

\* exact_shapley with the player loop of line 90 missing the first player,
\* whose value stays at the 0.0 of line 81
exact_shapley_SkipFirst(P, v) ==
    [p \in P |-> IF p = (CHOOSE q \in P : TRUE) THEN IntR(0)
                 ELSE ExactSum(v, Cardinality(P), p, {}, P \ {p})]

\* lines 81-102: the dict exact_shapley returns
exact_shapley(P, v) ==
    [p \in P |-> ExactSum(v, Cardinality(P), p, {}, P \ {p})]

\* number of value_function calls exact_shapley makes: one per coalition and
\* one per (coalition, player outside it)
ExactEvals(P) ==
    LET n == Cardinality(P)
    IN  SeqSum([r \in 1..(n + 1) |->
            (Factorial(n) \div (Factorial(r - 1) * Factorial(n - r + 1))) * (1 + n - (r - 1))])

\* MeanValues taking the first recorded marginal of each player for the mean
MeanValues_First(mc) == [p \in DOMAIN mc |-> mc[p][1]]

\* lines 66-69: the means of the recorded marginals
MeanValues(mc) == [p \in DOMAIN mc |-> Mean(mc[p])]

\* the empty dict {}
EmptyDict == <<>>

\* the state of a FastShapleyAttribution that is not in use
ShapleyUnused ==
    /\ players = {}
    /\ value_function = [S \in {{}} |-> IntR(0)]
    /\ pc = "idle"
    /\ n_samples = 0
    /\ marginal_contributions = EmptyDict
    /\ shapley_values = EmptyDict
    /\ samples_done = 0
    /\ raised = "none"
    /\ n_evals = 0

ShapleyInit ==
    /\ \/ /\ players \in SUBSET Contributors
          /\ value_function \in ValueTables(players)
       \/ /\ players = Contributors
          /\ value_function = SimpleValue(players)
       \/ /\ players \in {LargeSet(ExactLimit), LargeSet(ExactLimit + 1)}
          /\ value_function = SizeValue(players)
    /\ pc = "idle"
    /\ n_samples = 0
    /\ marginal_contributions = EmptyDict
    /\ shapley_values = EmptyDict
    /\ samples_done = 0
    /\ raised = "none"
    /\ n_evals = 0

\* ExactShapley with the size check of line 78 written n >= 10
ExactShapley_RejectsTen ==
    /\ pc = "idle"
    /\ IF Cardinality(players) >= ExactLimit
       THEN /\ raised' = "ValueError"
            /\ UNCHANGED <<shapley_values, n_evals>>
       ELSE /\ shapley_values' = exact_shapley(players, value_function)
            /\ n_evals' = n_evals + ExactEvals(players)
            /\ UNCHANGED raised
    /\ pc' = "exact_done"
    /\ UNCHANGED <<players, value_function, n_samples, marginal_contributions,
                   samples_done>>
    /\ UNCHANGED <<markov_vars, additivity_vars, hybrid_vars, privacy_vars, axiom_vars,
                   universal_vars, api_vars, sampling_vars>>

\* exact_shapley(), lines 73-102
ExactShapley ==
    /\ pc = "idle"
    /\ IF Cardinality(players) > ExactLimit
       THEN /\ raised' = "ValueError"
            /\ UNCHANGED <<shapley_values, n_evals>>
       ELSE /\ shapley_values' = exact_shapley(players, value_function)
            /\ n_evals' = n_evals + ExactEvals(players)
            /\ UNCHANGED raised
    /\ pc' = "exact_done"
    /\ UNCHANGED <<players, value_function, n_samples, marginal_contributions,
                   samples_done>>
    /\ UNCHANGED <<markov_vars, additivity_vars, hybrid_vars, privacy_vars, axiom_vars,
                   universal_vars, api_vars, sampling_vars>>

\* monte_carlo_shapley(n), line 48
MonteCarloStart ==
    /\ pc = "idle"
    /\ \E n \in 1..MaxSamples : n_samples' = n
    /\ marginal_contributions' = [p \in players |-> <<>>]
    /\ pc' = "mc_loop"
    /\ UNCHANGED <<players, value_function, shapley_values, samples_done, raised,
                   n_evals>>
    /\ UNCHANGED <<markov_vars, additivity_vars, hybrid_vars, privacy_vars, axiom_vars,
                   universal_vars, api_vars, sampling_vars>>

\* RecordSample overwriting each list with the newest marginal instead of
\* appending to it
RecordSample_KeepLast(mc, v, perm) ==
    [p \in DOMAIN mc |-> <<Marginal(v, perm, IndexOf(perm, p))>>]

\* lines 55-63: the marginals of one permutation appended to the lists
RecordSample(mc, v, perm) ==
    [p \in DOMAIN mc |-> Append(mc[p], Marginal(v, perm, IndexOf(perm, p)))]

\* one iteration of the loop of lines 50-63
MonteCarloSample ==
    /\ pc = "mc_loop"
    /\ samples_done < n_samples
    /\ \E perm \in SampledPermutations(players) :
          marginal_contributions' = RecordSample(marginal_contributions, value_function, perm)
    /\ samples_done' = samples_done + 1
    /\ n_evals' = n_evals + 2 * Cardinality(players)
    /\ UNCHANGED <<players, value_function, pc, n_samples, shapley_values, raised>>
    /\ UNCHANGED <<markov_vars, additivity_vars, hybrid_vars, privacy_vars, axiom_vars,
                   universal_vars, api_vars, sampling_vars>>

\* lines 66-71, once the loop has run n_samples times
MonteCarloReturn ==
    /\ pc = "mc_loop"
    /\ samples_done = n_samples
    /\ shapley_values' = MeanValues(marginal_contributions)
    /\ pc' = "mc_done"
    /\ UNCHANGED <<players, value_function, n_samples, marginal_contributions,
                   samples_done, raised, n_evals>>
    /\ UNCHANGED <<markov_vars, additivity_vars, hybrid_vars, privacy_vars, axiom_vars,
                   universal_vars, api_vars, sampling_vars>>

ShapleyNext == ExactShapley \/ MonteCarloStart \/ MonteCarloSample \/ MonteCarloReturn

----------------------------------------------------------------------------
\* MarkovAttribution (src/src/core/markov.py)

\* the default excluded_channel=None
None == "<None>"

CONVERSION == "CONVERSION"

NULL == "NULL"

\* line 55: Python's truth value of the argument excluded_channel
Truthy(x) == x # None /\ x # ""

\* lines 30-35
extract_channels(js) == UNION {Range(js[k]) : k \in DOMAIN js}

\* lines 55-56: the journey as the loop body sees it
Filtered(journey, excluded) ==
    IF Truthy(excluded)
    THEN SelectSeq(journey, LAMBDA ch : ch # excluded)
    ELSE journey

\* lines 62-71: the increments the loop body makes for one journey (already
\* filtered), each as <<position, from_state, to_state>>
JourneyIncrements(journey, converted) ==
    {<<i, journey[i], IF i < Len(journey) THEN journey[i + 1]
                      ELSE IF converted # 0 THEN CONVERSION ELSE NULL>> :
        i \in 1..Len(journey)}

\* lines 53-71: all increments of the loop, each as
\* <<journey number, position, from_state, to_state>>
Increments(js, cs, excluded) ==
    UNION {{<<k, e[1], e[2], e[3]>> : e \in JourneyIncrements(Filtered(js[k], excluded), cs[k])} :
           k \in DOMAIN js}

\* lines 51-71: the counts the loop leaves in transitions (a defaultdict: a
\* key exists once the loop has added to it)
CountTransitions(js, cs, excluded) ==
    LET incs == Increments(js, cs, excluded)
    IN  [from \in {e[3] : e \in incs} |->
            [to \in {e[4] : e \in {x \in incs : x[3] = from}} |->
                Cardinality({e \in incs : e[3] = from /\ e[4] = to})]]

\* sum(d.values()) of a dict d with integer values
RECURSIVE IntSumOver(_, _)
IntSumOver(d, keys) ==
    IF keys = {} THEN 0
    ELSE LET k == CHOOSE x \in keys : TRUE
         IN  d[k] + IntSumOver(d, keys \ {k})

\* NormalizeRow dividing by the number of targets, len(to_states), instead of
\* by the sum of the counts
NormalizeRow_ByLen(to_states) ==
    [to \in DOMAIN to_states |-> Rat(to_states[to], Cardinality(DOMAIN to_states))]

\* lines 76-81: one row of counts turned into probabilities
NormalizeRow(to_states) ==
    LET total == IntSumOver(to_states, DOMAIN to_states)
    IN  [to \in DOMAIN to_states |-> Rat(to_states[to], total)]

\* lines 73-83: the rows with a positive total, normalized
Normalize(transitions) ==
    LET kept == {from \in DOMAIN transitions :
                    IntSumOver(transitions[from], DOMAIN transitions[from]) > 0}
    IN  [from \in kept |-> NormalizeRow(transitions[from])]

\* lines 37-83
build_transition_matrix(js, cs, excluded) ==
    Normalize(CountTransitions(js, cs, excluded))

\* lines 85-96
compute_conversion_probability(transitions) ==
    LET with == {from \in DOMAIN transitions : CONVERSION \in DOMAIN transitions[from]}
        conversion_probs == [from \in with |-> transitions[from][CONVERSION]]
    IN  IF with = {} THEN IntR(0)
        ELSE RDiv(RSum(conversion_probs), IntR(Cardinality(with)))

\* removal_effect without the max(0, ...) of line 119
removal_effect_NoClip(js, cs, baseline_prob, channel) ==
    RSub(baseline_prob,
         compute_conversion_probability(build_transition_matrix(js, cs, channel)))

\* lines 115-119: the raw removal effect of one channel
removal_effect(js, cs, baseline_prob, channel) ==
    LET removed_prob ==
            compute_conversion_probability(build_transition_matrix(js, cs, channel))
    IN  RMax(IntR(0), RSub(baseline_prob, removed_prob))

\* how a method call ends: it returns a value or an exception leaves it
Return(value) == [raised |-> "none", value |-> value]

Raise(exception) == [raised |-> exception, value |-> EmptyDict]

\* NormalizeEffects leaving the effects as they are when their total is 0 (the
\* "if total > 0" of hybrid.py without an else branch)
NormalizeEffects_NoFallback(effects, chs) ==
    LET total_effect == RSum(effects)
    IN  IF RLt(IntR(0), total_effect)
        THEN Return([ch \in DOMAIN effects |->
                        RDiv(effects[ch], total_effect)])
        ELSE Return(effects)

\* lines 122-131: the effects normalized, or the uniform vector; 1.0 /
\* len(self.channels) is evaluated once per channel, so never for no channel
NormalizeEffects(effects, chs) ==
    LET total_effect == RSum(effects)
    IN  IF RLt(IntR(0), total_effect)
        THEN Return([ch \in DOMAIN effects |->
                        RDiv(effects[ch], total_effect)])
        ELSE Return([ch \in chs |-> RDiv(IntR(1), IntR(Cardinality(chs)))])

\* lines 107-120: the raw removal effects
RawRemovalEffects(js, cs, chs) ==
    LET baseline_prob ==
            compute_conversion_probability(build_transition_matrix(js, cs, None))
    IN  [ch \in chs |-> removal_effect(js, cs, baseline_prob, ch)]

\* lines 98-133
compute_removal_effects(js, cs, chs) ==
    NormalizeEffects(RawRemovalEffects(js, cs, chs), chs)

\* the journeys a caller may pass over the channel identifiers ids
JourneySet(ids) == UNION {[1..len -> ids] : len \in 0..MaxJourneyLen}

\* the corpus of tests/test_markov.py and of the spec's example scenario
TestJourneys == <<<<"A", "B", "C">>, <<"A", "C">>, <<"B", "C">>, <<"A", "B">>>>

TestConversions == <<1, 1, 0, 1>>

\* journeys over three channels of which, when all three convert, two have
\* different positive removal effects
MixedJourneys == <<<<"A", "A">>, <<"B", "A">>, <<"B", "C">>>>

\* MarkovAttribution(journeys, conversions), lines 26-28
MarkovInit ==
    /\ \/ \E m \in 0..MaxJourneys, ids \in JourneyAlphabets :
            /\ journeys \in [1..m -> JourneySet(ids)]
            /\ conversions \in [1..m -> {0, 1}]
       \/ /\ journeys \in {TestJourneys, MixedJourneys}
          /\ conversions \in [DOMAIN journeys -> {0, 1}]
    /\ channels = extract_channels(journeys)
    /\ excluded_channel = None
    /\ transition_probs = EmptyDict
    /\ removal_effects = EmptyDict
    /\ attribution = EmptyDict
    /\ markov_returned = {}
    /\ markov_raised = "none"

\* the state of a MarkovAttribution that is not in use
MarkovUnused ==
    /\ journeys = <<>>
    /\ conversions = <<>>
    /\ channels = {}
    /\ excluded_channel = None
    /\ transition_probs = EmptyDict
    /\ removal_effects = EmptyDict
    /\ attribution = EmptyDict
    /\ markov_returned = {}
    /\ markov_raised = "none"

\* build_transition_matrix(excluded_channel), lines 37-83. Neither method of
\* MarkovAttribution assigns a field of the object, so a call sees the object
\* as __init__ left it: a behaviour is one object and one call on it
BuildTransitionMatrix ==
    /\ markov_returned = {}
    /\ \E excluded \in channels \cup {None} :
          /\ excluded_channel' = excluded
          /\ transition_probs' = build_transition_matrix(journeys, conversions, excluded)
    /\ markov_returned' = markov_returned \cup {"build_transition_matrix"}
    /\ UNCHANGED <<journeys, conversions, channels, removal_effects, attribution,
                   markov_raised>>
    /\ UNCHANGED <<shapley_vars, additivity_vars, hybrid_vars, privacy_vars, axiom_vars,
                   universal_vars, api_vars, sampling_vars>>

\* compute_removal_effects(), lines 98-133
ComputeRemovalEffects ==
    /\ markov_returned = {}
    /\ LET effects == RawRemovalEffects(journeys, conversions, channels)
           result == NormalizeEffects(effects, channels)
       IN  /\ removal_effects' = effects
           /\ attribution' = result.value
           /\ markov_raised' = result.raised
    /\ markov_returned' = markov_returned \cup {"compute_removal_effects"}
    /\ UNCHANGED <<journeys, conversions, channels, excluded_channel, transition_probs>>
    /\ UNCHANGED <<shapley_vars, additivity_vars, hybrid_vars, privacy_vars, axiom_vars,
                   universal_vars, api_vars, sampling_vars>>

MarkovNext == BuildTransitionMatrix \/ ComputeRemovalEffects

----------------------------------------------------------------------------
\* HybridShapleyMarkov (src/src/core/hybrid.py)

\* lines 43-60: the value function made from the journey data
hybrid_value_function(js, cs, coalition) ==
    IF coalition = {} THEN IntR(0)
    ELSE LET relevant == {k \in DOMAIN js : Range(js[k]) \subseteq coalition}
         IN  IF relevant = {} THEN IntR(0)
             ELSE Rat(IntSumOver(cs, relevant), Cardinality(relevant))

\* the value function as the table FastShapleyAttribution evaluates
HybridValueTable(js, cs, chs) ==
    [S \in SUBSET chs |-> hybrid_value_function(js, cs, S)]

\* shapley.py lines 48-63: the lists after the permutations perms[1..k]
RECURSIVE MarginalsAfter(_, _, _, _)
MarginalsAfter(P, v, perms, k) ==
    IF k = 0 THEN [p \in P |-> <<>>]
    ELSE RecordSample(MarginalsAfter(P, v, perms, k - 1), v, perms[k])

\* shapley.py lines 32-71: the estimates for the sampled permutations perms
monte_carlo_shapley(P, v, perms) == MeanValues(MarginalsAfter(P, v, perms, Len(perms)))

\* lines 71-73 and 109-111: a dict divided by its total if that is positive
NormalizeIfPositive(d) ==
    LET total == RSum(d)
    IN  IF RLt(IntR(0), total) THEN [k \in DOMAIN d |-> RDiv(d[k], total)] ELSE d

\* lines 64-75
compute_shapley_component(js, cs, chs, perms) ==
    NormalizeIfPositive(monte_carlo_shapley(chs, HybridValueTable(js, cs, chs), perms))

\* lines 77-81
compute_markov_component(js, cs, chs) == compute_removal_effects(js, cs, chs).value

\* dict.get(k, 0.0)
Get(d, k) == IF k \in DOMAIN d THEN d[k] ELSE IntR(0)

\* Blend with the weights of the two sources exchanged
Blend_Swapped(shapley, markov, chs, a) ==
    [ch \in chs |-> RAdd(RMul(RSub(IntR(1), a), Get(shapley, ch)),
                         RMul(a, Get(markov, ch)))]

\* lines 100-106: the weighted combination hybrid_attr before it is normalized
Blend(shapley, markov, chs, a) ==
    [ch \in chs |-> RAdd(RMul(a, Get(shapley, ch)),
                         RMul(RSub(IntR(1), a), Get(markov, ch)))]

\* lines 100-111: the weighted combination, normalized
Combine(shapley, markov, chs, a) ==
    NormalizeIfPositive(Blend(shapley, markov, chs, a))

\* the values of alpha a caller passes
AlphaValues == {Rat(-1, 2), IntR(0), Rat(1, 2), IntR(1), Rat(3, 2)}

HybridUnused ==
    /\ alpha = IntR(0)
    /\ shapley_attr = EmptyDict
    /\ markov_attr = EmptyDict
    /\ hybrid_attr = EmptyDict
    /\ hybrid_called = FALSE
    /\ hybrid_raised = "none"

\* HybridShapleyMarkov(journeys, conversions), lines 28-30
HybridInit ==
    /\ \/ \E m \in 0..MaxJourneys :
            /\ journeys \in [1..m -> UNION {[1..len -> {"A", "B"}] :
                                              len \in 0..MaxHybridJourneyLen}]
            /\ conversions \in [1..m -> {0, 1}]
       \/ /\ journeys \in {TestJourneys, MixedJourneys}
          /\ conversions \in [DOMAIN journeys -> {0, 1}]
    /\ channels = extract_channels(journeys)
    /\ excluded_channel = None
    /\ transition_probs = EmptyDict
    /\ removal_effects = EmptyDict
    /\ attribution = EmptyDict
    /\ markov_returned = {}
    /\ markov_raised = "none"
    /\ HybridUnused

\* compute_hybrid_attribution(alpha), lines 83-113; the permutations are the
\* ones np.random.permutation returns inside monte_carlo_shapley
ComputeHybridAttribution ==
    /\ ~hybrid_called
    /\ \E markov \in {compute_markov_component(journeys, conversions, channels)},
          perms \in [1..HybridSamples -> AllPermutations(channels)] :
          \E shapley \in {compute_shapley_component(journeys, conversions,
                                                    channels, perms)},
             a \in AlphaValues :
             /\ alpha' = a
             /\ shapley_attr' = shapley
             /\ markov_attr' = markov
             /\ hybrid_attr' = Combine(shapley, markov, channels, a)
    /\ hybrid_called' = TRUE
    /\ hybrid_raised' = "none"
    /\ UNCHANGED <<markov_vars, shapley_vars, additivity_vars, privacy_vars, axiom_vars,
                   universal_vars, api_vars, sampling_vars>>

HybridNext == ComputeHybridAttribution

----------------------------------------------------------------------------
\* PrivateAttribution (src/src/core/privacy.py)

\* the epsilon a caller passes to __init__
EpsilonValues == {IntR(-1), IntR(0), Rat(1, 2), IntR(1)}

\* delta: float = 1e-5, line 15
DefaultDelta == Rat(1, 100000)

\* the attribution vectors a caller passes: weights for some of the channels
PrivacyChannels == {"A", "B"}

WeightValues == {IntR(0), Rat(1, 2), IntR(1)}

AttributionInputs == UNION {[keys -> WeightValues] : keys \in SUBSET PrivacyChannels}

\* values np.random.laplace may return for one sample (any real, for a
\* positive scale)
NoiseValues == {IntR(-1), Rat(-1, 2), IntR(0), Rat(1, 2), IntR(1)}

\* laplace_noise, line 46: scale = sensitivity / self.epsilon
laplace_scale(sensitivity, eps) == RDiv(sensitivity, eps)

\* line 72: noisy_weight = max(0, weight + noise)
noisy_weight(weight, noise) == RMax(IntR(0), RAdd(weight, noise))

\* privatize_attribution, lines 64-85, up to its return value: attr is the
\* argument, noise[ch] the sample laplace_noise returns for channel ch.
\* 2.0 / n_channels and sensitivity / self.epsilon raise ZeroDivisionError for
\* a zero divisor, np.random.laplace raises ValueError for a negative scale.
privatize_attribution(eps, attr, noise) ==
    LET n_channels == Cardinality(DOMAIN attr)
    IN  IF n_channels = 0 THEN Raise("ZeroDivisionError")
        ELSE IF eps = IntR(0) THEN Raise("ZeroDivisionError")
        ELSE IF RLt(laplace_scale(Rat(2, n_channels), eps), IntR(0))
             THEN Raise("ValueError")
        ELSE Return(NormalizeIfPositive(
                 [ch \in DOMAIN attr |-> noisy_weight(attr[ch], noise[ch])]))

\* the += adding a fixed unit instead of epsilon
SpentAfter_Unit(spent, eps) == RAdd(spent, IntR(1))

\* line 83: self.privacy_spent += self.epsilon, from the value read
SpentAfter(spent, eps) == RAdd(spent, eps)

\* lines 105-107
privacy_budget_remaining(eps, spent) == RMax(IntR(0), RSub(eps, spent))

\* the callers sharing one instance
Callers == 1..NumCallers

PrivacyUnused ==
    /\ privacy_pc = "unused"
    /\ privacy_last = "none"
    /\ epsilon = IntR(0)
    /\ delta = IntR(0)
    /\ privacy_spent = IntR(0)
    /\ privacy_input = EmptyDict
    /\ noisy_attribution = EmptyDict
    /\ privacy_raised = "none"
    /\ privacy_calls = 0
    /\ privacy_successes = 0
    /\ budget_remaining = None
    /\ caller_pc = [c \in Callers |-> "idle"]
    /\ caller_loaded = [c \in Callers |-> IntR(0)]

\* before PrivateAttribution(epsilon) is evaluated
PrivacyInit ==
    /\ privacy_pc = "new"
    /\ privacy_last = "none"
    /\ epsilon = IntR(0)
    /\ delta = IntR(0)
    /\ privacy_spent = IntR(0)
    /\ privacy_input = EmptyDict
    /\ noisy_attribution = EmptyDict
    /\ privacy_raised = "none"
    /\ privacy_calls = 0
    /\ privacy_successes = 0
    /\ budget_remaining = None
    /\ caller_pc = [c \in Callers |-> "idle"]
    /\ caller_loaded = [c \in Callers |-> IntR(0)]

\* __init__(epsilon, delta), lines 15-28: three assignments, no check
PrivateAttributionInit ==
    /\ privacy_pc = "new"
    /\ \E eps \in EpsilonValues : epsilon' = eps
    /\ delta' = DefaultDelta
    /\ privacy_spent' = IntR(0)
    /\ privacy_pc' = "ready"
    /\ privacy_last' = "__init__"
    /\ UNCHANGED <<privacy_input, noisy_attribution, privacy_raised, privacy_calls,
                   privacy_successes, budget_remaining, caller_pc, caller_loaded>>
    /\ UNCHANGED <<shapley_vars, markov_vars, additivity_vars, hybrid_vars, axiom_vars,
                   universal_vars, api_vars, sampling_vars>>

\* privatize_attribution(attribution), lines 50-85, by a single caller
PrivatizeAttribution ==
    /\ privacy_pc = "ready"
    /\ privacy_calls < MaxCalls
    /\ \E attr \in AttributionInputs :
          \E noise \in [DOMAIN attr -> NoiseValues] :
             \E result \in {privatize_attribution(epsilon, attr, noise)} :
                /\ privacy_input' = attr
                /\ noisy_attribution' = result.value
                /\ privacy_raised' = result.raised
                /\ privacy_spent' = IF result.raised = "none"
                                    THEN SpentAfter(privacy_spent, epsilon)
                                    ELSE privacy_spent
                /\ privacy_successes' = IF result.raised = "none"
                                        THEN privacy_successes + 1
                                        ELSE privacy_successes
    /\ privacy_calls' = privacy_calls + 1
    /\ privacy_last' = "privatize_attribution"
    /\ UNCHANGED <<privacy_pc, epsilon, delta, budget_remaining, caller_pc,
                   caller_loaded>>
    /\ UNCHANGED <<shapley_vars, markov_vars, additivity_vars, hybrid_vars, axiom_vars,
                   universal_vars, api_vars, sampling_vars>>

\* privacy_budget_remaining(), lines 105-107
PrivacyBudgetRemaining ==
    /\ privacy_pc = "ready"
    /\ budget_remaining' = privacy_budget_remaining(epsilon, privacy_spent)
    /\ privacy_last' = "privacy_budget_remaining"
    /\ UNCHANGED <<privacy_pc, epsilon, delta, privacy_spent, privacy_input,
                   noisy_attribution, privacy_raised, privacy_calls,
                   privacy_successes, caller_pc, caller_loaded>>
    /\ UNCHANGED <<shapley_vars, markov_vars, additivity_vars, hybrid_vars, axiom_vars,
                   universal_vars, api_vars, sampling_vars>>

PrivacyNext == PrivateAttributionInit \/ PrivatizeAttribution \/ PrivacyBudgetRemaining

\* the arguments sensitivity of laplace_noise in the model
Sensitivities == {IntR(1), IntR(2)}

\* the arguments n_queries of compute_privacy_loss in the model
QueryCounts == 0..MaxCalls

\* laplace_noise(sensitivity, size), lines 46-48, up to its return value:
\* samples are the size values np.random.laplace draws. sensitivity /
\* self.epsilon raises ZeroDivisionError for epsilon = 0, np.random.laplace
\* raises ValueError for a negative scale.
laplace_noise(eps, sensitivity, samples) ==
    IF eps = IntR(0) THEN Raise("ZeroDivisionError")
    ELSE IF RLt(laplace_scale(sensitivity, eps), IntR(0)) THEN Raise("ValueError")
    ELSE Return(samples)

\* compute_privacy_loss(n_queries), lines 101-103: the square root and the
\* logarithm are kept as a term; 1 / self.delta raises ZeroDivisionError for
\* delta = 0
compute_privacy_loss(eps, dlt, n_queries) ==
    IF dlt = IntR(0) THEN Raise("ZeroDivisionError")
    ELSE Return(<<"sqrt(2 * n_queries * log(1 / delta)) * epsilon", n_queries, dlt, eps>>)

\* LaplaceNoise adding the scale's epsilon to self.privacy_spent
LaplaceNoise_Charged ==
    /\ privacy_pc = "ready"
    /\ \E sensitivity \in Sensitivities, size \in {1, 2} :
          \E samples \in [1..size -> NoiseValues] :
             privacy_raised' = laplace_noise(epsilon, sensitivity, samples).raised
    /\ privacy_last' = "laplace_noise"
    /\ privacy_spent' = SpentAfter(privacy_spent, epsilon)
    /\ UNCHANGED <<privacy_pc, epsilon, delta, privacy_input,
                   noisy_attribution, privacy_calls, privacy_successes,
                   budget_remaining, caller_pc, caller_loaded>>
    /\ UNCHANGED <<shapley_vars, markov_vars, additivity_vars, hybrid_vars, axiom_vars,
                   universal_vars, api_vars, sampling_vars>>

\* laplace_noise(sensitivity, size), lines 30-48: the samples go to the
\* caller, no field of the object is assigned
LaplaceNoise ==
    /\ privacy_pc = "ready"
    /\ \E sensitivity \in Sensitivities, size \in {1, 2} :
          \E samples \in [1..size -> NoiseValues] :
             privacy_raised' = laplace_noise(epsilon, sensitivity, samples).raised
    /\ privacy_last' = "laplace_noise"
    /\ UNCHANGED <<privacy_pc, epsilon, delta, privacy_spent, privacy_input,
                   noisy_attribution, privacy_calls, privacy_successes,
                   budget_remaining, caller_pc, caller_loaded>>
    /\ UNCHANGED <<shapley_vars, markov_vars, additivity_vars, hybrid_vars, axiom_vars,
                   universal_vars, api_vars, sampling_vars>>

\* compute_privacy_loss(n_queries), lines 87-103: the loss goes to the
\* caller, no field of the object is assigned
ComputePrivacyLoss ==
    /\ privacy_pc = "ready"
    /\ \E n_queries \in QueryCounts :
          privacy_raised' = compute_privacy_loss(epsilon, delta, n_queries).raised
    /\ privacy_last' = "compute_privacy_loss"
    /\ UNCHANGED <<privacy_pc, epsilon, delta, privacy_spent, privacy_input,
                   noisy_attribution, privacy_calls, privacy_successes,
                   budget_remaining, caller_pc, caller_loaded>>
    /\ UNCHANGED <<shapley_vars, markov_vars, additivity_vars, hybrid_vars, axiom_vars,
                   universal_vars, api_vars, sampling_vars>>

\* every method of PrivateAttribution
PrivacyFrameNext == PrivacyNext \/ LaplaceNoise \/ ComputePrivacyLoss

\* Callers sharing one instance. privatize_attribution has no lock, and its
\* "self.privacy_spent += self.epsilon" reads the attribute, adds, and stores
\* the sum: another caller can run between the read and the store.

\* lines 64-80 for caller c: the noisy vector, a local of the call
CallerCompute(c) ==
    /\ privacy_pc = "ready"
    /\ caller_pc[c] = "idle"
    /\ \E attr \in AttributionInputs :
          \E noise \in [DOMAIN attr -> NoiseValues] :
             \E result \in {privatize_attribution(epsilon, attr, noise)} :
                caller_pc' = [caller_pc EXCEPT ![c] =
                                 IF result.raised = "none" THEN "computed" ELSE "raised"]
    /\ UNCHANGED <<privacy_pc, privacy_last, epsilon, delta, privacy_spent,
                   privacy_input, noisy_attribution, privacy_raised, privacy_calls,
                   privacy_successes, budget_remaining, caller_loaded>>
    /\ UNCHANGED <<shapley_vars, markov_vars, additivity_vars, hybrid_vars, axiom_vars,
                   universal_vars, api_vars, sampling_vars>>

\* line 83, first half: caller c reads self.privacy_spent
CallerLoad(c) ==
    /\ caller_pc[c] = "computed"
    /\ caller_loaded' = [caller_loaded EXCEPT ![c] = privacy_spent]
    /\ caller_pc' = [caller_pc EXCEPT ![c] = "loaded"]
    /\ UNCHANGED <<privacy_pc, privacy_last, epsilon, delta, privacy_spent,
                   privacy_input, noisy_attribution, privacy_raised, privacy_calls,
                   privacy_successes, budget_remaining>>
    /\ UNCHANGED <<shapley_vars, markov_vars, additivity_vars, hybrid_vars, axiom_vars,
                   universal_vars, api_vars, sampling_vars>>

\* line 83, second half, and line 85: caller c stores the sum and returns
CallerStore(c) ==
    /\ caller_pc[c] = "loaded"
    /\ privacy_spent' = SpentAfter(caller_loaded[c], epsilon)
    /\ caller_pc' = [caller_pc EXCEPT ![c] = "done"]
    /\ privacy_successes' = privacy_successes + 1
    /\ UNCHANGED <<privacy_pc, privacy_last, epsilon, delta, privacy_input,
                   noisy_attribution, privacy_raised, privacy_calls,
                   budget_remaining, caller_loaded>>
    /\ UNCHANGED <<shapley_vars, markov_vars, additivity_vars, hybrid_vars, axiom_vars,
                   universal_vars, api_vars, sampling_vars>>

CallerStep == \E c \in Callers : CallerCompute(c) \/ CallerLoad(c) \/ CallerStore(c)

PrivacyConcurrentNext == PrivateAttributionInit \/ CallerStep

----------------------------------------------------------------------------
\* UniversalAttributionAxioms (src/src/core/universal_axioms.py)

\* the tolerance a caller passes to __init__: the default 1e-6, and a coarse one
ToleranceValues == {Rat(1, 1000000), Rat(1, 2)}

\* the entities of the vectors a caller passes
AxiomEntities == {"A", "B"}

AxiomWeights == {IntR(0), Rat(1, 4), IntR(1)}

\* the Dict[str, float] arguments: weights for some of the entities
AxiomVectors == UNION {[keys -> AxiomWeights] : keys \in SUBSET AxiomEntities}

\* the total_outcome a caller passes
OutcomeValues == {Rat(1, 2), IntR(1)}

RAbs(a) == <<Abs(a[1]), a[2]>>

\* round(value, 10): a value of at most four decimals is its own rounding;
\* any other value is kept apart from the values of the first kind
Round10(value) ==
    IF 10000 % value[2] = 0 THEN value ELSE <<"round", value>>

\* np.allclose(a, b, rtol): |a[i] - b| <= atol + rtol * |b| for every i,
\* with numpy's default atol = 1e-8
AllClose(a, b, rtol) ==
    \A i \in DOMAIN a :
        RLe(RAbs(RSub(a[i], b)), RAdd(Rat(1, 100000000), RMul(rtol, RAbs(b))))

\* lines 39-43
verify_efficiency(tol, attributions, total_outcome) ==
    LET total_attribution == RSum(attributions)
        error == RAbs(RSub(total_attribution, total_outcome))
    IN  Return(<<RLt(error, tol), error>>)

\* lines 53-71; order is the order of the keys of contribution_values. A
\* group of more than one entity is looked up in attributions with
\* attributions[e], which raises KeyError for an entity that is not a key.
verify_symmetry(tol, attributions, contribution_values, order) ==
    LET rounded(e) == Round10(contribution_values[e])
        Group(v) == LET InGroup(e) == rounded(e) = v IN SelectSeq(order, InGroup)
        groups == {Group(rounded(e)) : e \in DOMAIN contribution_values}
        compared == {entities \in groups : Len(entities) > 1}
        InGroupValues(entities) ==
            [i \in DOMAIN entities |-> attributions[entities[i]]]
        violations ==
            {<<entities, InGroupValues(entities)>> : entities \in
                {g \in compared :
                    ~AllClose(InGroupValues(g), attributions[g[1]], tol)}}
    IN  IF \E entities \in compared :
              \E i \in DOMAIN entities : entities[i] \notin DOMAIN attributions
        THEN Raise("KeyError")
        ELSE Return(<<violations = {}, violations>>)

\* lines 80-88
verify_null_player(tol, attributions, contribution_values) ==
    LET violations ==
            {entity \in DOMAIN contribution_values :
                /\ RLt(RAbs(contribution_values[entity]), tol)
                /\ RLt(tol, RAbs(Get(attributions, entity)))}
    IN  Return(<<violations = {}, violations>>)

\* the error of one entity, lines 104-106
additivity_error(game1, game2, combined, entity) ==
    RAbs(RSub(RAdd(Get(game1, entity), Get(game2, entity)), Get(combined, entity)))

\* lines 100-107: max_error after the loop over the entities of the set
RECURSIVE MaxError(_, _, _, _)
MaxError(game1, game2, combined, entities) ==
    IF entities = {} THEN IntR(0)
    ELSE LET entity == CHOOSE e \in entities : TRUE
         IN  RMax(MaxError(game1, game2, combined, entities \ {entity}),
                  additivity_error(game1, game2, combined, entity))

\* verify_additivity looking at the entities of game 1 only
verify_additivity_Game1Only(tol, game1_attributions, game2_attributions, combined_attributions) ==
    LET max_error == MaxError(game1_attributions, game2_attributions,
                              combined_attributions, DOMAIN game1_attributions)
    IN  Return(<<RLt(max_error, tol), max_error>>)

\* lines 90-110
verify_additivity(tol, game1_attributions, game2_attributions, combined_attributions) ==
    LET all_entities == DOMAIN game1_attributions \cup DOMAIN game2_attributions
        max_error == MaxError(game1_attributions, game2_attributions,
                              combined_attributions, all_entities)
    IN  Return(<<RLt(max_error, tol), max_error>>)

AxiomsUnused ==
    /\ tolerance = IntR(0)
    /\ axiom_method = "unused"
    /\ axiom_attributions = EmptyDict
    /\ axiom_contributions = EmptyDict
    /\ axiom_combined = EmptyDict
    /\ axiom_total = IntR(0)
    /\ axiom_satisfied = None
    /\ axiom_details = None
    /\ axiom_raised = "none"

\* UniversalAttributionAxioms(tolerance), lines 28-29
AxiomsInit ==
    /\ tolerance \in ToleranceValues
    /\ axiom_method = "none"
    /\ axiom_attributions = EmptyDict
    /\ axiom_contributions = EmptyDict
    /\ axiom_combined = EmptyDict
    /\ axiom_total = IntR(0)
    /\ axiom_satisfied = None
    /\ axiom_details = None
    /\ axiom_raised = "none"

\* what a call leaves behind: the pair it returned, or the exception
AxiomOutcome(result) ==
    /\ axiom_raised' = result.raised
    /\ axiom_satisfied' = IF result.raised = "none" THEN result.value[1] ELSE None
    /\ axiom_details' = IF result.raised = "none" THEN result.value[2] ELSE None

\* The verify_* methods assign no field of the object: a behaviour is one
\* object and one call on it.

\* verify_efficiency(attributions, total_outcome), lines 31-43
VerifyEfficiency ==
    /\ axiom_method = "none"
    /\ \E attrs \in AxiomVectors, total_outcome \in OutcomeValues :
          /\ axiom_attributions' = attrs
          /\ axiom_total' = total_outcome
          /\ AxiomOutcome(verify_efficiency(tolerance, attrs, total_outcome))
    /\ axiom_method' = "verify_efficiency"
    /\ UNCHANGED <<tolerance, axiom_contributions, axiom_combined>>
    /\ UNCHANGED <<shapley_vars, markov_vars, additivity_vars, hybrid_vars, privacy_vars,
                   universal_vars, api_vars, sampling_vars>>

\* verify_symmetry(attributions, contribution_values), lines 45-71
VerifySymmetry ==
    /\ axiom_method = "none"
    /\ \E attrs \in AxiomVectors, contribs \in AxiomVectors :
          \E order \in AllPermutations(DOMAIN contribs) :
             /\ axiom_attributions' = attrs
             /\ axiom_contributions' = contribs
             /\ AxiomOutcome(verify_symmetry(tolerance, attrs, contribs, order))
    /\ axiom_method' = "verify_symmetry"
    /\ UNCHANGED <<tolerance, axiom_combined, axiom_total>>
    /\ UNCHANGED <<shapley_vars, markov_vars, additivity_vars, hybrid_vars, privacy_vars,
                   universal_vars, api_vars, sampling_vars>>

\* verify_null_player(attributions, contribution_values), lines 73-88
VerifyNullPlayer ==
    /\ axiom_method = "none"
    /\ \E attrs \in AxiomVectors, contribs \in AxiomVectors :
          /\ axiom_attributions' = attrs
          /\ axiom_contributions' = contribs
          /\ AxiomOutcome(verify_null_player(tolerance, attrs, contribs))
    /\ axiom_method' = "verify_null_player"
    /\ UNCHANGED <<tolerance, axiom_combined, axiom_total>>
    /\ UNCHANGED <<shapley_vars, markov_vars, additivity_vars, hybrid_vars, privacy_vars,
                   universal_vars, api_vars, sampling_vars>>

\* verify_additivity(game1_attributions, game2_attributions,
\* combined_attributions), lines 90-110
VerifyAdditivity ==
    /\ axiom_method = "none"
    /\ \E game1 \in AxiomVectors, game2 \in AxiomVectors, combined \in AxiomVectors :
          /\ axiom_attributions' = game1
          /\ axiom_contributions' = game2
          /\ axiom_combined' = combined
          /\ AxiomOutcome(verify_additivity(tolerance, game1, game2, combined))
    /\ axiom_method' = "verify_additivity"
    /\ UNCHANGED <<tolerance, axiom_total>>
    /\ UNCHANGED <<shapley_vars, markov_vars, additivity_vars, hybrid_vars, privacy_vars,
                   universal_vars, api_vars, sampling_vars>>

AxiomsNext == VerifyEfficiency \/ VerifySymmetry \/ VerifyNullPlayer \/ VerifyAdditivity

----------------------------------------------------------------------------
\* Three FastShapleyAttribution over one player list, built as in
\* TestShapleyValues.test_additivity (src/tests/test_shapley.py, lines 59-61)
\* for value1, value2 and combined_value, each asked for exact_shapley

\* the 0/1-valued tables over P; the empty coalition has value 0 in the
\* tables of the full player list
IndicatorTables(P) ==
    {[S \in SUBSET P |->
        IntR(IF b[S] /\ (S # {} \/ Cardinality(P) < Cardinality(Contributors))
             THEN 1 ELSE 0)] :
        b \in [SUBSET P -> BOOLEAN]}

\* combined_value of test_additivity, lines 57-58
CombinedValue(v1, v2) == [S \in DOMAIN v1 |-> RAdd(v1[S], v2[S])]

AdditivityUnused ==
    /\ value1 = [S \in {{}} |-> IntR(0)]
    /\ value2 = [S \in {{}} |-> IntR(0)]
    /\ values1 = EmptyDict
    /\ values2 = EmptyDict
    /\ values_combined = EmptyDict
    /\ additivity_calls = 0

\* lines 60-62: the three instances are constructed
AdditivityInit ==
    /\ players \in SUBSET Contributors
    /\ value1 \in IndicatorTables(players)
    /\ value2 \in IndicatorTables(players)
    /\ values1 = EmptyDict
    /\ values2 = EmptyDict
    /\ values_combined = EmptyDict
    /\ additivity_calls = 0
    /\ value_function = [S \in {{}} |-> IntR(0)]
    /\ pc = "idle"
    /\ n_samples = 0
    /\ marginal_contributions = EmptyDict
    /\ shapley_values = EmptyDict
    /\ samples_done = 0
    /\ raised = "none"
    /\ n_evals = 0

\* shapley1.exact_shapley()
ExactShapley1 ==
    /\ additivity_calls = 0
    /\ Cardinality(players) <= ExactLimit
    /\ values1' = exact_shapley(players, value1)
    /\ additivity_calls' = 1
    /\ UNCHANGED <<value1, value2, values2, values_combined>>
    /\ UNCHANGED <<shapley_vars, markov_vars, hybrid_vars, privacy_vars, axiom_vars,
                   universal_vars, api_vars, sampling_vars>>

\* shapley2.exact_shapley()
ExactShapley2 ==
    /\ additivity_calls = 1
    /\ Cardinality(players) <= ExactLimit
    /\ values2' = exact_shapley(players, value2)
    /\ additivity_calls' = 2
    /\ UNCHANGED <<value1, value2, values1, values_combined>>
    /\ UNCHANGED <<shapley_vars, markov_vars, hybrid_vars, privacy_vars, axiom_vars,
                   universal_vars, api_vars, sampling_vars>>

\* shapley_combined.exact_shapley()
ExactShapleyCombined ==
    /\ additivity_calls = 2
    /\ Cardinality(players) <= ExactLimit
    /\ values_combined' = exact_shapley(players, CombinedValue(value1, value2))
    /\ additivity_calls' = 3
    /\ UNCHANGED <<value1, value2, values1, values2>>
    /\ UNCHANGED <<shapley_vars, markov_vars, hybrid_vars, privacy_vars, axiom_vars,
                   universal_vars, api_vars, sampling_vars>>

AdditivityNext == ExactShapley1 \/ ExactShapley2 \/ ExactShapleyCombined

----------------------------------------------------------------------------
\* UniversalAttributionAxioms.compute_universal_attribution
\* (src/src/core/universal_axioms.py, lines 112-174)

\* lines 126-144: the Shapley value of every entity, by the subset formula
universal_shapley(P, v) ==
    [e \in P |-> ExactSum(v, Cardinality(P), e, {}, P \ {e})]

\* lines 146-150: scaled to outcome_value when the total is positive, left as
\* it is otherwise
NormalizeToOutcome(attributions, outcome) ==
    LET total == RSum(attributions)
    IN  IF RLt(IntR(0), total)
        THEN [e \in DOMAIN attributions |-> RMul(RDiv(attributions[e], total), outcome)]
        ELSE attributions

\* lines 152-153: the contribution of every entity alone
SoloContributions(P, v) == [e \in P |-> v[{e}]]

\* lines 160-166: one message per axiom that was found violated
AxiomViolations(eff_ok, sym_ok, null_ok) ==
    (IF eff_ok THEN <<>> ELSE <<"Efficiency violated">>)
    \o (IF sym_ok THEN <<>> ELSE <<"Symmetry violated">>)
    \o (IF null_ok THEN <<>> ELSE <<"Null player violated">>)

\* lines 112-174: the AttributionResult returned for the list ents, the
\* table v and outcome_value outcome
compute_universal_attribution(tol, ents, v, outcome) ==
    LET P == Range(ents)
        attributions == NormalizeToOutcome(universal_shapley(P, v), outcome)
        contribution_values == SoloContributions(P, v)
        eff == verify_efficiency(tol, attributions, outcome).value
        sym == verify_symmetry(tol, attributions, contribution_values, ents).value
        null == verify_null_player(tol, attributions, contribution_values).value
    IN  [attributions |-> attributions,
         efficiency_satisfied |-> eff[1],
         symmetry_satisfied |-> sym[1],
         null_player_satisfied |-> null[1],
         additivity_satisfied |-> TRUE,
         axiom_violations |-> AxiomViolations(eff[1], sym[1], null[1])]

\* the lists of distinct entities over the subsets of Contributors
EntityLists == UNION {AllPermutations(P) : P \in SUBSET Contributors}

UniversalUnused ==
    /\ universal_entities = <<>>
    /\ contribution_func1 = [S \in {{}} |-> IntR(0)]
    /\ contribution_func2 = [S \in {{}} |-> IntR(0)]
    /\ universal_outcome = IntR(0)
    /\ universal_result1 = None
    /\ universal_result2 = None
    /\ universal_combined = None
    /\ universal_calls = 0

\* the caller holds a list of entities, two games over it (the second is the
\* first again or len(coalition)) and an outcome value; nothing is computed yet
UniversalInit ==
    /\ universal_entities \in EntityLists
    /\ contribution_func1 \in IndicatorTables(Range(universal_entities))
    /\ contribution_func2 \in {contribution_func1, SizeValue(Range(universal_entities))}
    /\ universal_outcome \in OutcomeValues
    /\ universal_result1 = None
    /\ universal_result2 = None
    /\ universal_combined = None
    /\ universal_calls = 0

\* compute_universal_attribution(entities, contribution_func1, outcome_value)
ComputeUniversalAttribution1 ==
    /\ universal_calls = 0
    /\ universal_result1' = compute_universal_attribution(tolerance,
            universal_entities, contribution_func1, universal_outcome)
    /\ universal_calls' = 1
    /\ UNCHANGED <<universal_entities, contribution_func1, contribution_func2,
                   universal_outcome, universal_result2, universal_combined>>
    /\ UNCHANGED <<shapley_vars, markov_vars, additivity_vars, hybrid_vars, privacy_vars,
                   axiom_vars, api_vars, sampling_vars>>

\* compute_universal_attribution(entities, contribution_func2, outcome_value)
ComputeUniversalAttribution2 ==
    /\ universal_calls = 1
    /\ universal_result2' = compute_universal_attribution(tolerance,
            universal_entities, contribution_func2, universal_outcome)
    /\ universal_calls' = 2
    /\ UNCHANGED <<universal_entities, contribution_func1, contribution_func2,
                   universal_outcome, universal_result1, universal_combined>>
    /\ UNCHANGED <<shapley_vars, markov_vars, additivity_vars, hybrid_vars, privacy_vars,
                   axiom_vars, api_vars, sampling_vars>>

\* compute_universal_attribution(entities, v1 + v2, outcome_value)
ComputeUniversalAttributionCombined ==
    /\ universal_calls = 2
    /\ universal_combined' = compute_universal_attribution(tolerance,
            universal_entities, CombinedValue(contribution_func1, contribution_func2),
            universal_outcome)
    /\ universal_calls' = 3
    /\ UNCHANGED <<universal_entities, contribution_func1, contribution_func2,
                   universal_outcome, universal_result1, universal_result2>>
    /\ UNCHANGED <<shapley_vars, markov_vars, additivity_vars, hybrid_vars, privacy_vars,
                   axiom_vars, api_vars, sampling_vars>>

\* verify_additivity on the three vectors that were returned
VerifyReturnedAdditivity ==
    /\ universal_calls = 3
    /\ axiom_method = "none"
    /\ axiom_attributions' = universal_result1.attributions
    /\ axiom_contributions' = universal_result2.attributions
    /\ axiom_combined' = universal_combined.attributions
    /\ AxiomOutcome(verify_additivity(tolerance, universal_result1.attributions,
            universal_result2.attributions, universal_combined.attributions))
    /\ axiom_method' = "verify_additivity"
    /\ UNCHANGED <<tolerance, axiom_total>>
    /\ UNCHANGED <<shapley_vars, markov_vars, additivity_vars, hybrid_vars, privacy_vars,
                   universal_vars, api_vars, sampling_vars>>

UniversalNext ==
    \/ ComputeUniversalAttribution1
    \/ ComputeUniversalAttribution2
    \/ ComputeUniversalAttributionCombined
    \/ VerifyReturnedAdditivity

----------------------------------------------------------------------------
\* CompleteUnifiedFramework (src/src/api/attribution_api.py)

\* the channel columns of the tables in the model
ApiChannels == {"A", "B"}

\* the tables a caller may pass as data: one to MaxRows rows of binary
\* channel columns
DataTables ==
    UNION {[1..n -> [chs -> {0, 1}]] : n \in 1..MaxRows, chs \in SUBSET ApiChannels}

\* the column names of a table
Columns(data) == DOMAIN data[1]

\* _infer_conversions, lines 49-53: 1 for a row with a positive sum
infer_conversions(data) ==
    [i \in DOMAIN data |->
        IF IntSumOver(data[i], DOMAIN data[i]) > 0 THEN 1 ELSE 0]

\* the rows of data with data[channel] == value
RowsWhere(data, channel, value) == {i \in DOMAIN data : data[i][channel] = value}

\* _compute_shapley, lines 89-106
api_compute_shapley(data, chs) ==
    NormalizeIfPositive(
        [channel \in chs |-> Mean([i \in DOMAIN data |-> IntR(data[i][channel])])])

\* lines 115-121: the effect of one channel in _compute_markov
api_markov_effect(data, channel) ==
    LET with_channel == RowsWhere(data, channel, 1)
        without_channel == RowsWhere(data, channel, 0)
    IN  IF Cardinality(without_channel) > 0
        THEN RMul(Rat(Cardinality(with_channel), Len(data)), Rat(3, 2))
        ELSE Rat(1, 2)

\* _compute_markov, lines 108-130
api_compute_markov(data, chs) ==
    NormalizeIfPositive([channel \in chs |-> api_markov_effect(data, channel)])

\* _compute_hybrid, lines 132-147
api_compute_hybrid(data, chs) ==
    LET shapley == api_compute_shapley(data, chs)
        markov == api_compute_markov(data, chs)
    IN  NormalizeIfPositive(
            [channel \in chs |->
                RAdd(RMul(Rat(1, 2), Get(shapley, channel)),
                     RMul(Rat(1, 2), Get(markov, channel)))])

\* lines 156-162: the effect of one channel in _compute_causal
api_causal_effect(data, channel) ==
    LET treated == Cardinality(RowsWhere(data, channel, 1))
        control == Cardinality(RowsWhere(data, channel, 0))
    IN  IF treated > 0 /\ control > 0
        THEN Rat(Abs(treated - control), Len(data))
        ELSE Rat(1, 10)

\* _compute_causal, lines 149-171
api_compute_causal(data, chs) ==
    NormalizeIfPositive([channel \in chs |-> api_causal_effect(data, channel)])

\* _compute_private, lines 173-189: noise[channel] is the sample
\* np.random.laplace returns for the channel. 2.0 / len(self.channels) and
\* sensitivity / self.epsilon raise ZeroDivisionError for a zero divisor,
\* np.random.laplace raises ValueError for a negative scale.
api_compute_private(eps, chs, base_attribution, noise) ==
    IF chs = {} THEN Raise("ZeroDivisionError")
    ELSE IF eps = IntR(0) THEN Raise("ZeroDivisionError")
    ELSE IF RLt(RDiv(Rat(2, Cardinality(chs)), eps), IntR(0)) THEN Raise("ValueError")
    ELSE Return(NormalizeIfPositive(
             [channel \in DOMAIN base_attribution |->
                 RMax(IntR(0), RAdd(base_attribution[channel], noise[channel]))]))

\* compute_complete_attribution, lines 55-87, up to the elapsed time
compute_complete_attribution(data, chs, eps, noise) ==
    LET hybrid == api_compute_hybrid(data, chs)
        private == api_compute_private(eps, chs, hybrid, noise)
    IN  IF private.raised # "none" THEN private
        ELSE Return([shapley |-> api_compute_shapley(data, chs),
                     markov |-> api_compute_markov(data, chs),
                     hybrid |-> hybrid,
                     causal |-> api_compute_causal(data, chs),
                     private |-> private.value])

ApiUnused ==
    /\ api_data = <<>>
    /\ api_channels = {}
    /\ api_conversions = <<>>
    /\ api_epsilon = IntR(0)
    /\ api_results = None
    /\ api_elapsed = None
    /\ api_raised = "none"
    /\ api_called = FALSE

\* CompleteUnifiedFramework(journeys, data, epsilon), lines 40-47; no method
\* reads self.journeys or self.use_gpu
ApiInit ==
    /\ api_data \in DataTables
    /\ api_channels = Columns(api_data)
    /\ api_conversions = infer_conversions(api_data)
    /\ api_epsilon \in EpsilonValues
    /\ api_results = None
    /\ api_elapsed = None
    /\ api_raised = "none"
    /\ api_called = FALSE

\* compute_complete_attribution(), lines 55-87; the elapsed time is whatever
\* the clock measured
ComputeCompleteAttribution ==
    /\ ~api_called
    /\ api_called' = TRUE
    /\ \E noise \in [api_channels -> NoiseValues], elapsed \in 0..1 :
          \E result \in {compute_complete_attribution(api_data, api_channels,
                                                      api_epsilon, noise)} :
             /\ api_raised' = result.raised
             /\ api_results' = IF result.raised = "none" THEN result.value ELSE None
             /\ api_elapsed' = IF result.raised = "none" THEN elapsed ELSE None
    /\ UNCHANGED <<api_data, api_channels, api_conversions, api_epsilon>>
    /\ UNCHANGED <<shapley_vars, markov_vars, additivity_vars, hybrid_vars, privacy_vars,
                   axiom_vars, universal_vars, sampling_vars>>

ApiNext == ComputeCompleteAttribution

----------------------------------------------------------------------------
\* FastShapleyAttribution.monte_carlo_shapley as one call
\* (src/src/core/shapley.py, lines 32-71)

\* the elements of a finite set as a list
RECURSIVE SetToList(_)
SetToList(S) ==
    IF S = {} THEN <<>>
    ELSE LET x == CHOOSE y \in S : TRUE IN <<x>> \o SetToList(S \ {x})

\* the list s repeated k times
Repeat(s, k) == [i \in 1..(k * Len(s)) |-> s[((i - 1) % Len(s)) + 1]]

\* the lists of permutations np.random.permutation returns to one call in
\* the model: every list of 1..MaxSamples orderings of P, and every ordering
\* of P drawn once in each of 1..MaxRounds rounds
SampleLists(P) ==
    UNION {[1..n -> AllPermutations(P)] : n \in 1..MaxSamples}
    \cup {Repeat(SetToList(AllPermutations(P)), k) : k \in 1..MaxRounds}

\* the value functions of the sampled games: for every coalition T the game
\* that pays 1 to the coalitions containing T (every value function over P is
\* a linear combination of these, and the marginals are linear in the value
\* function), and the two value functions of the tests
SampledGames(P) ==
    {[S \in SUBSET P |-> IntR(IF T \subseteq S THEN 1 ELSE 0)] : T \in SUBSET P}
    \cup {SimpleValue(P), SizeValue(P)}

SamplingUnused == sampled = <<>>

\* FastShapleyAttribution(players, value_function), lines 28-30
SamplingInit ==
    /\ players \in SUBSET Contributors
    /\ value_function \in SampledGames(players)
    /\ pc = "idle"
    /\ n_samples = 0
    /\ marginal_contributions = EmptyDict
    /\ shapley_values = EmptyDict
    /\ samples_done = 0
    /\ raised = "none"
    /\ n_evals = 0
    /\ sampled = <<>>

\* monte_carlo_shapley(n_samples), lines 48-71, from call to return: perms
\* are the n_samples permutations drawn at line 52
MonteCarloShapley ==
    /\ pc = "idle"
    /\ \E perms \in SampleLists(players) :
          /\ sampled' = perms
          /\ n_samples' = Len(perms)
          /\ samples_done' = Len(perms)
          /\ marginal_contributions' =
                MarginalsAfter(players, value_function, perms, Len(perms))
          /\ shapley_values' = monte_carlo_shapley(players, value_function, perms)
          /\ n_evals' = 2 * Cardinality(players) * Len(perms)
    /\ pc' = "mc_done"
    /\ UNCHANGED <<players, value_function, raised>>
    /\ UNCHANGED <<markov_vars, additivity_vars, hybrid_vars, privacy_vars, axiom_vars,
                   universal_vars, api_vars>>

SamplingNext == MonteCarloShapley

----------------------------------------------------------------------------
\* The callers' vectors: the dicts a caller holds and passes to
\* privatize_attribution (src/src/core/privacy.py, lines 50-85) and to the
\* verify_* methods (src/src/core/universal_axioms.py, lines 31-110). In
\* these behaviours privacy_input, axiom_attributions, axiom_contributions and
\* axiom_combined are the caller's dicts themselves, before and after a call.

\* a caller holds a vector and is about to construct a PrivateAttribution
HeldPrivacyInit ==
    /\ privacy_pc = "new"
    /\ privacy_last = "none"
    /\ epsilon = IntR(0)
    /\ delta = IntR(0)
    /\ privacy_spent = IntR(0)
    /\ privacy_input \in AttributionInputs
    /\ noisy_attribution = EmptyDict
    /\ privacy_raised = "none"
    /\ privacy_calls = 0
    /\ privacy_successes = 0
    /\ budget_remaining = None
    /\ caller_pc = [c \in Callers |-> "idle"]
    /\ caller_loaded = [c \in Callers |-> IntR(0)]

\* a caller holds three vectors and a UniversalAttributionAxioms
HeldAxiomsInit ==
    /\ tolerance \in ToleranceValues
    /\ axiom_method = "none"
    /\ axiom_attributions \in AxiomVectors
    /\ axiom_contributions \in AxiomVectors
    /\ axiom_combined \in AxiomVectors
    /\ axiom_total = IntR(0)
    /\ axiom_satisfied = None
    /\ axiom_details = None
    /\ axiom_raised = "none"

\* PrivatizeHeldAttribution normalizing the caller's dict in place
PrivatizeHeldAttribution_InPlace ==
    /\ privacy_pc = "ready"
    /\ privacy_calls < MaxCalls
    /\ \E noise \in [DOMAIN privacy_input -> NoiseValues] :
          \E result \in {privatize_attribution(epsilon, privacy_input, noise)} :
             /\ noisy_attribution' = result.value
             /\ privacy_input' = IF result.raised = "none" THEN result.value
                                 ELSE privacy_input
             /\ privacy_raised' = result.raised
             /\ privacy_spent' = IF result.raised = "none"
                                 THEN SpentAfter(privacy_spent, epsilon)
                                 ELSE privacy_spent
             /\ privacy_successes' = IF result.raised = "none"
                                     THEN privacy_successes + 1
                                     ELSE privacy_successes
    /\ privacy_calls' = privacy_calls + 1
    /\ privacy_last' = "privatize_attribution"
    /\ UNCHANGED <<privacy_pc, epsilon, delta, budget_remaining, caller_pc,
                   caller_loaded>>
    /\ UNCHANGED <<shapley_vars, markov_vars, additivity_vars, hybrid_vars, axiom_vars,
                   universal_vars, api_vars, sampling_vars>>

\* privatize_attribution(attribution) on the caller's dict, lines 50-85: the
\* loop of lines 70-73 reads attribution.items() and writes to the new dict
\* noisy_attribution, lines 76-80 rebind that name
PrivatizeHeldAttribution ==
    /\ privacy_pc = "ready"
    /\ privacy_calls < MaxCalls
    /\ \E noise \in [DOMAIN privacy_input -> NoiseValues] :
          \E result \in {privatize_attribution(epsilon, privacy_input, noise)} :
             /\ noisy_attribution' = result.value
             /\ privacy_input' = privacy_input
             /\ privacy_raised' = result.raised
             /\ privacy_spent' = IF result.raised = "none"
                                 THEN SpentAfter(privacy_spent, epsilon)
                                 ELSE privacy_spent
             /\ privacy_successes' = IF result.raised = "none"
                                     THEN privacy_successes + 1
                                     ELSE privacy_successes
    /\ privacy_calls' = privacy_calls + 1
    /\ privacy_last' = "privatize_attribution"
    /\ UNCHANGED <<privacy_pc, epsilon, delta, budget_remaining, caller_pc,
                   caller_loaded>>
    /\ UNCHANGED <<shapley_vars, markov_vars, additivity_vars, hybrid_vars, axiom_vars,
                   universal_vars, api_vars, sampling_vars>>

\* verify_efficiency on the caller's attributions, lines 31-43
VerifyHeldEfficiency ==
    /\ axiom_method = "none"
    /\ \E total_outcome \in OutcomeValues :
          /\ axiom_total' = total_outcome
          /\ AxiomOutcome(verify_efficiency(tolerance, axiom_attributions, total_outcome))
    /\ axiom_method' = "verify_efficiency"
    /\ UNCHANGED <<tolerance, axiom_attributions, axiom_contributions, axiom_combined>>
    /\ UNCHANGED <<shapley_vars, markov_vars, additivity_vars, hybrid_vars, privacy_vars,
                   universal_vars, api_vars, sampling_vars>>

\* verify_symmetry on the caller's attributions and contribution_values,
\* lines 45-71
VerifyHeldSymmetry ==
    /\ axiom_method = "none"
    /\ \E order \in AllPermutations(DOMAIN axiom_contributions) :
          AxiomOutcome(verify_symmetry(tolerance, axiom_attributions,
                                       axiom_contributions, order))
    /\ axiom_method' = "verify_symmetry"
    /\ UNCHANGED <<tolerance, axiom_attributions, axiom_contributions, axiom_combined,
                   axiom_total>>
    /\ UNCHANGED <<shapley_vars, markov_vars, additivity_vars, hybrid_vars, privacy_vars,
                   universal_vars, api_vars, sampling_vars>>

\* verify_null_player on the caller's attributions and contribution_values,
\* lines 73-88
VerifyHeldNullPlayer ==
    /\ axiom_method = "none"
    /\ AxiomOutcome(verify_null_player(tolerance, axiom_attributions, axiom_contributions))
    /\ axiom_method' = "verify_null_player"
    /\ UNCHANGED <<tolerance, axiom_attributions, axiom_contributions, axiom_combined,
                   axiom_total>>
    /\ UNCHANGED <<shapley_vars, markov_vars, additivity_vars, hybrid_vars, privacy_vars,
                   universal_vars, api_vars, sampling_vars>>

\* verify_additivity on the caller's three vectors, lines 90-110
VerifyHeldAdditivity ==
    /\ axiom_method = "none"
    /\ AxiomOutcome(verify_additivity(tolerance, axiom_attributions, axiom_contributions,
                                      axiom_combined))
    /\ axiom_method' = "verify_additivity"
    /\ UNCHANGED <<tolerance, axiom_attributions, axiom_contributions, axiom_combined,
                   axiom_total>>
    /\ UNCHANGED <<shapley_vars, markov_vars, additivity_vars, hybrid_vars, privacy_vars,
                   universal_vars, api_vars, sampling_vars>>

\* one of the objects is in use in a behaviour: a MarkovAttribution, or a
\* PrivateAttribution and a held vector, or a UniversalAttributionAxioms and
\* three held vectors
InputsInit ==
    \/ MarkovInit /\ PrivacyUnused /\ AxiomsUnused
    \/ MarkovUnused /\ HeldPrivacyInit /\ AxiomsUnused
    \/ MarkovUnused /\ PrivacyUnused /\ HeldAxiomsInit

InputsNext ==
    \/ BuildTransitionMatrix
    \/ ComputeRemovalEffects
    \/ PrivateAttributionInit
    \/ PrivatizeHeldAttribution
    \/ VerifyHeldEfficiency
    \/ VerifyHeldSymmetry
    \/ VerifyHeldNullPlayer
    \/ VerifyHeldAdditivity

----------------------------------------------------------------------------
\* Properties of FastShapleyAttribution

\* exact_shapley has returned a dict
ExactReturned == pc = "exact_done" /\ raised = "none"

\* c never changes the value of a coalition it joins
IsNullPlayer(c) ==
    \A S \in SUBSET (players \ {c}) : value_function[S \cup {c}] = value_function[S]

\* i and j add the same to every coalition that holds neither
Interchangeable(i, j) ==
    \A S \in SUBSET (players \ {i, j}) :
        value_function[S \cup {i}] = value_function[S \cup {j}]

\* C1: for 1 to 10 players and a value function with value(empty coalition) = 0,
\* the values exact_shapley returns sum to the value of the coalition of all
\* players.
C1_ExactEfficiency ==
    (/\ ExactReturned
     /\ Cardinality(players) \in 1..10
     /\ value_function[{}] = IntR(0))
        => RSum(shapley_values) = value_function[players]

\* exact_shapley has returned for three players whose values differ and sum to
\* a grand-coalition value of 1
C1_Witness ==
    /\ ExactReturned
    /\ players = Contributors
    /\ value_function[{}] = IntR(0)
    /\ value_function[players] = IntR(1)
    /\ shapley_values["A"] # shapley_values["B"]
    /\ shapley_values["B"] # shapley_values["C"]

\* C2: exact_shapley raises its size-limit error exactly when there are more
\* than 10 players, and when it raises it has returned nothing and has not
\* called the value function.
C2_SizeLimit ==
    pc = "exact_done" =>
        /\ (raised = "ValueError") <=> (Cardinality(players) > 10)
        /\ raised \in {"none", "ValueError"}
        /\ raised = "ValueError" => (n_evals = 0 /\ shapley_values = EmptyDict)
        /\ raised = "none" => (DOMAIN shapley_values = players /\
                                (players # {} => n_evals > 0))

\* exact_shapley was called with 11 players and raised
C2_Witness ==
    /\ pc = "exact_done"
    /\ Cardinality(players) = 11
    /\ raised = "ValueError"

\* exact_shapley was called with 10 players and returned their values
C2_WitnessAccepted ==
    /\ ExactReturned
    /\ Cardinality(players) = 10
    /\ \A p \in players : shapley_values[p] = IntR(1)

\* C3: a null player gets exactly 0 from exact_shapley; in monte_carlo_shapley
\* every marginal recorded for it is 0, and so is its estimate.
C3_NullPlayer ==
    \A c \in players :
        IsNullPlayer(c) =>
            /\ ExactReturned => shapley_values[c] = IntR(0)
            /\ pc \in {"mc_loop", "mc_done"} =>
                  \A i \in DOMAIN marginal_contributions[c] :
                      marginal_contributions[c][i] = IntR(0)
            /\ pc = "mc_done" => shapley_values[c] = IntR(0)

\* monte_carlo_shapley(2) has returned for a game with a null player C next
\* to a player with a non-zero estimate
C3_Witness ==
    /\ pc = "mc_done"
    /\ n_samples = 2
    /\ players = Contributors
    /\ IsNullPlayer("C")
    /\ Len(marginal_contributions["C"]) = 2
    /\ shapley_values["A"] # IntR(0)

\* C4: exact_shapley gives interchangeable players equal values; for the
\* players A, B, C and value len(coalition)/3 it gives each 1/3.
C4_Symmetry ==
    ExactReturned =>
        /\ \A i, j \in players :
              Interchangeable(i, j) => shapley_values[i] = shapley_values[j]
        /\ (players = {"A", "B", "C"} /\ value_function = SimpleValue(players))
              => \A p \in players : shapley_values[p] = Rat(1, 3)

\* exact_shapley has returned for three players of whom A and B are
\* interchangeable and C is valued differently
C4_Witness ==
    /\ ExactReturned
    /\ players = Contributors
    /\ Interchangeable("A", "B")
    /\ shapley_values["A"] # IntR(0)
    /\ shapley_values["C"] # shapley_values["A"]

\* C5: for value functions v1 and v2 over the same players, exact_shapley of
\* v1 + v2 gives every player the sum of what exact_shapley of v1 and of v2
\* give it.
C5_Additivity ==
    additivity_calls = 3 =>
        /\ DOMAIN values_combined = players
        /\ \A i \in players : values_combined[i] = RAdd(values1[i], values2[i])

\* the three calls have returned for three players, with v1 and v2 giving A
\* different non-zero values
C5_Witness ==
    /\ additivity_calls = 3
    /\ players = Contributors
    /\ values1["A"] # IntR(0)
    /\ values2["A"] # IntR(0)
    /\ values1["A"] # values2["A"]
    /\ values1["A"] # values1["B"]

\* C6: once k >= 1 samples are complete, every player has k recorded
\* marginals and the means of the lists sum to value(all players) minus
\* value(empty coalition).
C6_PartialEfficiency ==
    (pc \in {"mc_loop", "mc_done"} /\ samples_done >= 1) =>
        /\ \A p \in players : Len(marginal_contributions[p]) = samples_done
        /\ RSum(MeanValues(marginal_contributions))
              = RSub(value_function[players], value_function[{}])
        /\ pc = "mc_done" => shapley_values = MeanValues(marginal_contributions)

\* the loop of monte_carlo_shapley(2) has completed one sample and not the
\* second, over two players and a value function with value(empty) # 0
C6_Witness ==
    /\ pc = "mc_loop"
    /\ n_samples = 2
    /\ samples_done = 1
    /\ Cardinality(players) = 2
    /\ value_function[{}] # IntR(0)
    /\ value_function[players] # value_function[{}]

----------------------------------------------------------------------------
\* Properties of MarkovAttribution

\* build_transition_matrix has returned transition_probs
MatrixReturned == "build_transition_matrix" \in markov_returned

\* compute_removal_effects has been called and is over
EffectsCalled == "compute_removal_effects" \in markov_returned

\* C7: whatever the corpus and the excluded channel (none included), every
\* source state of the model build_transition_matrix returns has outgoing
\* probabilities in (0, 1] that sum to 1.
C7_RowsSumToOne ==
    MatrixReturned =>
        \A from \in DOMAIN transition_probs :
            /\ DOMAIN transition_probs[from] # {}
            /\ \A to \in DOMAIN transition_probs[from] :
                  /\ RLt(IntR(0), transition_probs[from][to])
                  /\ RLe(transition_probs[from][to], IntR(1))
            /\ RSum(transition_probs[from]) = IntR(1)

\* build_transition_matrix returned, for an excluded channel of the corpus, a
\* model in which a state has two targets, one of them another channel
C7_Witness ==
    /\ MatrixReturned
    /\ Truthy(excluded_channel)
    /\ excluded_channel \in channels
    /\ \E from \in DOMAIN transition_probs :
          /\ Cardinality(DOMAIN transition_probs[from]) >= 2
          /\ DOMAIN transition_probs[from] \cap channels # {}

\* C8: for a corpus with at least one contributor, compute_removal_effects
\* returns one entry per distinct contributor of the corpus, each >= 0, and
\* the entries sum to 1.
C8_EffectsNormalized ==
    (EffectsCalled /\ extract_channels(journeys) # {}) =>
        /\ markov_raised = "none"
        /\ DOMAIN attribution = extract_channels(journeys)
        /\ \A ch \in DOMAIN attribution : RLe(IntR(0), attribution[ch])
        /\ RSum(attribution) = IntR(1)

\* compute_removal_effects returned, for a corpus of three channels, a vector
\* with two different positive entries and a zero entry
C8_Witness ==
    /\ EffectsCalled
    /\ journeys = MixedJourneys
    /\ conversions = <<1, 1, 1>>
    /\ attribution = [ch \in {"A", "B", "C"} |->
                         IF ch = "A" THEN Rat(1, 4) ELSE IF ch = "B" THEN IntR(0) ELSE Rat(3, 4)]

\* compute_removal_effects returned the uniform vector over A, B, C for the
\* corpus of the example scenario
C8_WitnessExample ==
    /\ EffectsCalled
    /\ journeys = TestJourneys
    /\ conversions = TestConversions
    /\ \A ch \in {"A", "B", "C"} : attribution[ch] = Rat(1, 3)

\* every removal effect was 0 when the loop over the channels ended
AllEffectsZero ==
    /\ DOMAIN removal_effects = channels
    /\ \A ch \in channels : removal_effects[ch] = IntR(0)

\* C9: when every raw removal effect is 0, compute_removal_effects returns
\* the uniform vector 1/n over the n contributors; for a corpus without
\* sequences or with empty sequences only it returns (the empty vector) and
\* raises nothing.
C9_UniformFallback ==
    EffectsCalled =>
        /\ AllEffectsZero =>
              /\ markov_raised = "none"
              /\ DOMAIN attribution = channels
              /\ \A ch \in channels : attribution[ch] = Rat(1, Cardinality(channels))
        /\ (\A k \in DOMAIN journeys : journeys[k] = <<>>) =>
              /\ markov_raised = "none"
              /\ attribution = EmptyDict

\* compute_removal_effects returned the uniform vector for a corpus of two
\* channels with a converting journey, all of whose raw effects are 0
C9_Witness ==
    /\ EffectsCalled
    /\ Cardinality(channels) = 2
    /\ \E k \in DOMAIN journeys : conversions[k] = 1 /\ Len(journeys[k]) = 2
    /\ AllEffectsZero
    /\ \A ch \in channels : attribution[ch] = Rat(1, 2)

\* compute_removal_effects returned for a corpus of two empty journeys
C9_WitnessEmpty ==
    /\ EffectsCalled
    /\ journeys = <<<<>>, <<>>>>
    /\ attribution = EmptyDict

----------------------------------------------------------------------------
\* Properties of HybridShapleyMarkov

\* C10: compute_hybrid_attribution fails with an error whenever alpha is
\* below 0 or above 1; it returns no vector for such an alpha.
C10_AlphaOutsideRaises ==
    (hybrid_called /\ (RLt(alpha, IntR(0)) \/ RLt(IntR(1), alpha))) =>
        /\ hybrid_raised # "none"
        /\ hybrid_attr = EmptyDict

\* alpha of the call that has returned is in [0, 1]
AlphaInRange == RLe(IntR(0), alpha) /\ RLe(alpha, IntR(1))

\* C11: for a corpus with at least one contributor and alpha in [0, 1], the
\* vector compute_hybrid_attribution returns sums to 1 (also for alpha = 1
\* and a corpus without a converting journey).
C11_HybridSumsToOne ==
    (hybrid_called /\ AlphaInRange /\ channels # {}) =>
        RSum(hybrid_attr) = IntR(1)

\* C12: for every corpus, alpha in [0, 1] and sampled permutations, every
\* entry of the vector compute_hybrid_attribution returns is >= 0.
C12_HybridNonNegative ==
    (hybrid_called /\ AlphaInRange) =>
        \A ch \in DOMAIN hybrid_attr : RLe(IntR(0), hybrid_attr[ch])

\* the dict d without the key k
Without(d, k) == [x \in DOMAIN d \ {k} |-> d[x]]

\* C13: with alpha = 0 the hybrid vector is the Markov removal-effects
\* vector, with alpha = 1 it is the Shapley component (the Monte Carlo values
\* divided by their total); a contributor missing from one of the two input
\* vectors gets 0 from that source in the combination.
C13_PureEndpoints ==
    hybrid_called =>
        /\ DOMAIN hybrid_attr = channels
        /\ alpha = IntR(0) => hybrid_attr = markov_attr
        /\ alpha = IntR(1) => hybrid_attr = shapley_attr
        /\ \A ch \in channels :
              /\ Blend(Without(shapley_attr, ch), markov_attr, channels, alpha)[ch]
                    = RMul(RSub(IntR(1), alpha), markov_attr[ch])
              /\ Blend(shapley_attr, Without(markov_attr, ch), channels, alpha)[ch]
                    = RMul(alpha, shapley_attr[ch])

\* compute_hybrid_attribution(0) returned, for the two journeys [A] converting
\* and [B] not, the Markov vector, which differs from the Shapley component
C13_Witness ==
    /\ hybrid_called
    /\ alpha = IntR(0)
    /\ journeys = <<<<"A">>, <<"B">>>>
    /\ conversions = <<1, 0>>
    /\ hybrid_attr = markov_attr
    /\ hybrid_attr # shapley_attr
    /\ hybrid_attr["A"] = IntR(1)

\* compute_hybrid_attribution(1) returned, for the example corpus, the Shapley
\* component, which differs from the Markov vector
C13_WitnessShapley ==
    /\ hybrid_called
    /\ alpha = IntR(1)
    /\ journeys = TestJourneys
    /\ hybrid_attr = shapley_attr
    /\ hybrid_attr # markov_attr
    /\ RSum(hybrid_attr) = IntR(1)

----------------------------------------------------------------------------
\* Properties of PrivateAttribution

\* C14: constructing with epsilon <= 0 fails, so no instance has a
\* non-positive epsilon.
C14_EpsilonPositive ==
    privacy_pc = "ready" => RLt(IntR(0), epsilon)

\* C15: on one instance used by a single caller, privacy_spent is 0 after
\* construction, is k * epsilon after k privatize_attribution calls have
\* returned, and no operation decreases it.
C15_SpentIsCallsTimesEpsilon ==
    /\ [](privacy_last = "__init__" => privacy_spent = IntR(0))
    /\ [](privacy_pc = "ready" =>
             privacy_spent = RMul(IntR(privacy_successes), epsilon))
    /\ [][privacy_pc = "ready" => RLe(privacy_spent, privacy_spent')]_vars

\* two calls have returned on an instance with epsilon = 1/2
C15_Witness ==
    /\ privacy_pc = "ready"
    /\ epsilon = Rat(1, 2)
    /\ privacy_successes = 2
    /\ privacy_spent = IntR(1)

\* on an instance with epsilon = 1 a call returned and a later call raised
C15_WitnessRaised ==
    /\ privacy_pc = "ready"
    /\ epsilon = IntR(1)
    /\ privacy_successes = 1
    /\ privacy_calls = 2
    /\ privacy_raised # "none"
    /\ privacy_spent = IntR(1)

\* every concurrent caller has left privatize_attribution
AllCallersOver == \A c \in Callers : caller_pc[c] \in {"done", "raised"}

\* C16: with concurrent callers on one instance no increment of
\* privacy_spent is lost: once the calls are over, privacy_spent is epsilon
\* times the number of calls that returned.
C16_NoLostIncrement ==
    (privacy_pc = "ready" /\ AllCallersOver) =>
        privacy_spent =
            RMul(IntR(Cardinality({c \in Callers : caller_pc[c] = "done"})), epsilon)

\* C17: for a non-empty input vector and any noise, the vector
\* privatize_attribution returns has the input's keys, weights >= 0 and
\* weights that sum to 1 (also when every noisy weight is clipped to 0).
C17_PrivatizedNormalized ==
    (privacy_last = "privatize_attribution" /\ privacy_raised = "none"
        /\ DOMAIN privacy_input # {}) =>
        /\ DOMAIN noisy_attribution = DOMAIN privacy_input
        /\ \A ch \in DOMAIN noisy_attribution : RLe(IntR(0), noisy_attribution[ch])
        /\ RSum(noisy_attribution) = IntR(1)

\* C18: privacy_budget_remaining returns max(0, epsilon - privacy_spent),
\* never a negative value, and a privatize_attribution call made when the
\* remaining budget is 0 returns and adds epsilon to privacy_spent.
C18_BudgetNotEnforced ==
    /\ [](privacy_last = "privacy_budget_remaining" =>
             /\ budget_remaining = RMax(IntR(0), RSub(epsilon, privacy_spent))
             /\ RLe(IntR(0), budget_remaining))
    /\ [][(privacy_calls' = privacy_calls + 1
             /\ RMax(IntR(0), RSub(epsilon, privacy_spent)) = IntR(0)) =>
                /\ privacy_raised' = "none"
                /\ privacy_spent' = RAdd(privacy_spent, epsilon)]_vars

----------------------------------------------------------------------------
\* Properties of UniversalAttributionAxioms

\* |attrs_a[c] + attrs_b[c] - attrs_combined[c]| of the verify_additivity
\* call, a missing entry read as 0
AdditivityGap(c) ==
    LET Entry(d) == IF c \in DOMAIN d THEN d[c] ELSE IntR(0)
        gap == RSub(RAdd(Entry(axiom_attributions), Entry(axiom_contributions)),
                    Entry(axiom_combined))
    IN  IF RLt(gap, IntR(0)) THEN RNeg(gap) ELSE gap

\* C19: verify_additivity returns satisfied = true exactly when the gap of
\* every contributor present in attrs_a or attrs_b is below the tolerance,
\* and its max_error is the largest of these gaps (0 when there is no such
\* contributor).
C19_AdditivityVerdict ==
    axiom_method = "verify_additivity" =>
        LET present == DOMAIN axiom_attributions \cup DOMAIN axiom_contributions
        IN  /\ axiom_raised = "none"
            /\ axiom_satisfied = (\A c \in present : RLt(AdditivityGap(c), tolerance))
            /\ \A c \in present : RLe(AdditivityGap(c), axiom_details)
            /\ present # {} => \E c \in present : AdditivityGap(c) = axiom_details
            /\ present = {} => axiom_details = IntR(0)

\* verify_additivity returned satisfied with max_error 1/4 for vectors with
\* different keys: A only in the first, B only in the second and the combined
C19_Witness ==
    /\ axiom_method = "verify_additivity"
    /\ tolerance = Rat(1, 2)
    /\ DOMAIN axiom_attributions = {"A"}
    /\ DOMAIN axiom_contributions = {"B"}
    /\ DOMAIN axiom_combined = {"B"}
    /\ axiom_satisfied = TRUE
    /\ axiom_details = Rat(1, 4)

\* verify_additivity returned not satisfied because of a contributor that is
\* in the second vector only
C19_WitnessViolated ==
    /\ axiom_method = "verify_additivity"
    /\ axiom_satisfied = FALSE
    /\ \A c \in DOMAIN axiom_attributions : RLt(AdditivityGap(c), tolerance)
    /\ \E c \in DOMAIN axiom_contributions : ~RLt(AdditivityGap(c), tolerance)

\* C20: every axiom check returns a (satisfied, details) pair and raises
\* nothing, whatever the vectors, also when a contributor of the solo
\* contributions is missing from the attribution vector.
C20_ChecksNeverRaise ==
    axiom_method \in {"verify_efficiency", "verify_symmetry",
                      "verify_null_player", "verify_additivity"} =>
        /\ axiom_raised = "none"
        /\ axiom_satisfied \in BOOLEAN

----------------------------------------------------------------------------
\* Properties of compute_universal_attribution

\* C21: for every list of entities and every contribution function with
\* contribution_func([]) = 0, the result compute_universal_attribution
\* returns reports efficiency, symmetry and null player satisfied and lists
\* no axiom violation.
C21_AllAxiomsReported ==
    (universal_calls >= 1 /\ contribution_func1[{}] = IntR(0)) =>
        /\ universal_result1.efficiency_satisfied
        /\ universal_result1.symmetry_satisfied
        /\ universal_result1.null_player_satisfied
        /\ universal_result1.axiom_violations = <<>>

\* C29: whenever compute_universal_attribution reports additivity_satisfied
\* for two games and for their sum (same entities, same outcome_value),
\* verify_additivity on the three returned vectors is satisfied.
C29_ReportedAdditivityHolds ==
    (/\ universal_calls = 3
     /\ axiom_method = "verify_additivity"
     /\ universal_result1.additivity_satisfied
     /\ universal_result2.additivity_satisfied
     /\ universal_combined.additivity_satisfied) =>
        axiom_satisfied = TRUE

----------------------------------------------------------------------------
\* Properties of CompleteUnifiedFramework

\* the vector is non-negative and sums to 1
IsDistribution(d) ==
    /\ \A k \in DOMAIN d : RLe(IntR(0), d[k])
    /\ RSum(d) = IntR(1)

\* C22: for every input with at least one contributor, each of the vectors
\* shapley, markov, hybrid and private returned by
\* compute_complete_attribution is non-negative and sums to 1.
C22_CompleteVectorsNormalized ==
    (api_called /\ api_raised = "none" /\ api_channels # {}) =>
        /\ IsDistribution(api_results.shapley)
        /\ IsDistribution(api_results.markov)
        /\ IsDistribution(api_results.hybrid)
        /\ IsDistribution(api_results.private)

----------------------------------------------------------------------------
\* Properties of monte_carlo_shapley

\* how often perm occurs in the list perms
Occurrences(perms, perm) == Cardinality({i \in DOMAIN perms : perms[i] = perm})

\* the sampled permutations cover every ordering of the players equally often
CoversEqually ==
    /\ sampled # <<>>
    /\ \A perm1, perm2 \in AllPermutations(players) :
          Occurrences(sampled, perm1) = Occurrences(sampled, perm2)

\* C23: if the sampled permutations cover all n! orderings of the players
\* equally often, the Monte Carlo estimate of every player equals the value
\* exact_shapley returns for the same value function.
C23_FullCoverageIsExact ==
    (pc = "mc_done" /\ CoversEqually) =>
        shapley_values = exact_shapley(players, value_function)

\* every ordering of three players was sampled and the players do not all
\* receive the same value
C23_Witness ==
    /\ pc = "mc_done"
    /\ CoversEqually
    /\ players = Contributors
    /\ Len(sampled) = Factorial(Cardinality(Contributors))
    /\ \E p, q \in players : shapley_values[p] # shapley_values[q]

\* the marginal of player p in the ordering perm
MarginalOf(v, perm, p) == Marginal(v, perm, IndexOf(perm, p))

\* the sum of the marginals of p over a chunk of sampled permutations
ChunkSum(v, perms, p) ==
    RSeqSum([i \in DOMAIN perms |-> MarginalOf(v, perms[i], p)])

\* the estimate of p by two workers: the first takes the first k permutations
\* of perms, the second the rest, and the two sums are divided by the total
\* sample count
PartitionEstimate(v, perms, k, p) ==
    RDiv(RAdd(ChunkSum(v, SubSeq(perms, 1, k), p),
              ChunkSum(v, SubSeq(perms, k + 1, Len(perms)), p)),
         IntR(Len(perms)))

\* the orders in which n samples are processed: every order for up to
\* MaxSamples samples, the rotations and the reversal for more
IndexOrders(n) ==
    IF n <= MaxSamples
    THEN {f \in [1..n -> 1..n] : \A i, j \in 1..n : f[i] = f[j] => i = j}
    ELSE {[i \in 1..n |-> ((i - 1 + r) % n) + 1] : r \in 0..(n - 1)}
         \cup {[i \in 1..n |-> n + 1 - i]}

\* C24: the Monte Carlo estimate depends only on the multiset of sampled
\* permutations: summing the marginals of every player over the samples in
\* any order and any split between two workers, and dividing by the sample
\* count, gives the estimate of the sequential loop.
C24_OrderAndPartitionIndependent ==
    pc = "mc_done" =>
        \A order \in IndexOrders(Len(sampled)), k \in 0..Len(sampled) :
            \A p \in players :
                PartitionEstimate(value_function,
                                  [i \in DOMAIN sampled |-> sampled[order[i]]], k, p)
                    = shapley_values[p]

\* two different orderings of at least two players were sampled and their
\* marginals differ for some player
C24_Witness ==
    /\ pc = "mc_done"
    /\ Len(sampled) = 2
    /\ sampled[1] # sampled[2]
    /\ \E p \in players :
          MarginalOf(value_function, sampled[1], p)
              # MarginalOf(value_function, sampled[2], p)

----------------------------------------------------------------------------
\* Properties of MarkovAttribution: exclusion, conversion probability, frame

\* the numbers of the journeys that keep a step when channel c is removed
KeptJourneys(c) == {k \in DOMAIN journeys : \E i \in DOMAIN journeys[k] : journeys[k][i] # c}

\* the journeys (or conversions) with the numbers in kept, in their order
Restrict(list, kept) ==
    LET IsKept(k) == k \in kept
        numbers == SelectSeq([k \in DOMAIN list |-> k], IsKept)
    IN  [i \in DOMAIN numbers |-> list[numbers[i]]]

\* C25: for every channel c of the corpus, whatever string it is, the matrix
\* build_transition_matrix(excluded_channel=c) returns has c neither as a
\* source nor as a target, and it is the matrix of the corpus without the
\* journeys that removing c empties.
C25_ExcludedChannelAbsent ==
    ("build_transition_matrix" \in markov_returned /\ excluded_channel \in channels) =>
        /\ excluded_channel \notin DOMAIN transition_probs
        /\ \A from \in DOMAIN transition_probs :
              excluded_channel \notin DOMAIN transition_probs[from]
        /\ transition_probs =
              build_transition_matrix(Restrict(journeys, KeptJourneys(excluded_channel)),
                                      Restrict(conversions, KeptJourneys(excluded_channel)),
                                      excluded_channel)

\* the journey without the steps of channel c
WithoutChannel(journey, c) == SelectSeq(journey, LAMBDA ch : ch # c)

\* how often state s is left in the corpus without channel c: once for each
\* of its occurrences
TimesLeft(s, c) ==
    Cardinality(UNION {{<<k, i>> : i \in {j \in DOMAIN WithoutChannel(journeys[k], c) :
                                              WithoutChannel(journeys[k], c)[j] = s}} :
                       k \in DOMAIN journeys})

\* how often state s is left for CONVERSION: once for each converted journey
\* that ends in s
TimesConverted(s, c) ==
    Cardinality({k \in DOMAIN journeys :
                    /\ WithoutChannel(journeys[k], c) # <<>>
                    /\ WithoutChannel(journeys[k], c)[Len(WithoutChannel(journeys[k], c))] = s
                    /\ conversions[k] # 0})

\* the mean of the CONVERSION probabilities over the states that have a
\* CONVERSION transition in the corpus without channel c, 0 if there is none
ConversionMean(c) ==
    LET converting == {s \in channels : TimesConverted(s, c) > 0}
    IN  IF converting = {} THEN IntR(0)
        ELSE RDiv(RSumOver([s \in converting |->
                                Rat(TimesConverted(s, c), TimesLeft(s, c))],
                           converting),
                  IntR(Cardinality(converting)))

\* max(0, baseline - excluded_c)
ConversionDrop(c) == RMax(IntR(0), RSub(ConversionMean(None), ConversionMean(c)))

\* C26: whenever some channel has a positive drop, compute_removal_effects
\* returns for each channel c the value max(0, baseline - excluded_c) divided
\* by the sum of these values, baseline and excluded_c being the mean
\* CONVERSION probability (within [0,1]) of the corpus without exclusion and
\* without c; a channel whose exclusion does not lower it receives 0.
C26_RemovalEffectFormula ==
    (/\ "compute_removal_effects" \in markov_returned
     /\ \E c \in channels : RLt(IntR(0), ConversionDrop(c))) =>
        /\ markov_raised = "none"
        /\ DOMAIN attribution = channels
        /\ \A c \in channels :
              /\ attribution[c] =
                    RDiv(ConversionDrop(c),
                         RSumOver([d \in channels |-> ConversionDrop(d)], channels))
              /\ RLe(IntR(0), ConversionMean(c)) /\ RLe(ConversionMean(c), IntR(1))
              /\ RLe(ConversionMean(None), ConversionMean(c)) => attribution[c] = IntR(0)
        /\ RLe(IntR(0), ConversionMean(None)) /\ RLe(ConversionMean(None), IntR(1))

----------------------------------------------------------------------------
\* Properties of PrivateAttribution: empty vectors and frame

\* C27: privatize_attribution applied to an empty attribution vector returns
\* an empty vector and raises no division-by-zero error.
C27_EmptyVectorFallback ==
    (privacy_last = "privatize_attribution" /\ privacy_input = EmptyDict) =>
        /\ privacy_raised = "none"
        /\ noisy_attribution = EmptyDict

\* C30: privacy_spent is changed only by a privatize_attribution call that
\* returns: laplace_noise, compute_privacy_loss and privacy_budget_remaining
\* leave epsilon, delta and privacy_spent unchanged, and so does a
\* privatize_attribution call that raises.
C30_SpentChangedOnlyBySuccess ==
    [][privacy_pc = "ready" =>
          /\ epsilon' = epsilon
          /\ delta' = delta
          /\ privacy_spent' # privacy_spent =>
                (privacy_last' = "privatize_attribution" /\ privacy_raised' = "none")]_vars

\* laplace_noise has returned on an instance that was charged for one
\* privatize_attribution call and not for a second one, which raised
C30_Witness ==
    /\ privacy_last = "laplace_noise"
    /\ privacy_raised = "none"
    /\ privacy_calls = 2
    /\ privacy_successes = 1
    /\ RLt(IntR(0), epsilon)
    /\ privacy_spent = epsilon

\* compute_privacy_loss has returned after a charged call
C30_WitnessLoss ==
    /\ privacy_last = "compute_privacy_loss"
    /\ privacy_successes = 1
    /\ privacy_spent = epsilon
    /\ RLt(IntR(0), epsilon)

\* C28: no operation mutates its inputs: privatize_attribution and the four
\* verify_* checks leave the vectors passed to them as they were, and
\* build_transition_matrix and compute_removal_effects, with or without an
\* excluded channel, leave the stored journeys and conversions as they were.
C28_InputsUnchanged ==
    [][/\ privacy_input' = privacy_input
       /\ axiom_attributions' = axiom_attributions
       /\ axiom_contributions' = axiom_contributions
       /\ axiom_combined' = axiom_combined
       /\ journeys' = journeys
       /\ conversions' = conversions]_vars

\* privatize_attribution returned a vector that differs from the held one
C28_Witness ==
    /\ privacy_last = "privatize_attribution"
    /\ privacy_raised = "none"
    /\ privacy_input # EmptyDict
    /\ noisy_attribution # privacy_input

\* build_transition_matrix has filtered a channel out of a stored journey
C28_WitnessMarkov ==
    /\ "build_transition_matrix" \in markov_returned
    /\ Truthy(excluded_channel)
    /\ \E k \in DOMAIN journeys : excluded_channel \in Range(journeys[k])

\* verify_additivity has compared three held vectors and found a violation
C28_WitnessAxioms ==
    /\ axiom_method = "verify_additivity"
    /\ axiom_satisfied = FALSE
    /\ axiom_combined # EmptyDict

----------------------------------------------------------------------------
\* Specifications

\* one FastShapleyAttribution and its caller
InitShapley == ShapleyInit /\ MarkovUnused /\ AdditivityUnused /\ HybridUnused /\ PrivacyUnused
    /\ AxiomsUnused
    /\ UniversalUnused
    /\ ApiUnused
    /\ SamplingUnused

SpecShapley == InitShapley /\ [][ShapleyNext]_vars

\* three FastShapleyAttribution with value functions v1, v2 and v1 + v2
InitAdditivity == AdditivityInit /\ MarkovUnused /\ HybridUnused /\ PrivacyUnused
    /\ AxiomsUnused
    /\ UniversalUnused
    /\ ApiUnused
    /\ SamplingUnused

SpecAdditivity == InitAdditivity /\ [][AdditivityNext]_vars

\* one MarkovAttribution and its caller
InitMarkov == MarkovInit /\ ShapleyUnused /\ AdditivityUnused /\ HybridUnused /\ PrivacyUnused
    /\ AxiomsUnused
    /\ UniversalUnused
    /\ ApiUnused
    /\ SamplingUnused

\* one HybridShapleyMarkov and its caller
InitHybrid == HybridInit /\ ShapleyUnused /\ AdditivityUnused /\ PrivacyUnused
    /\ AxiomsUnused
    /\ UniversalUnused
    /\ ApiUnused
    /\ SamplingUnused

SpecHybrid == InitHybrid /\ [][HybridNext]_vars

SpecMarkov == InitMarkov /\ [][MarkovNext]_vars

\* one PrivateAttribution and its single caller
InitPrivacy == PrivacyInit /\ ShapleyUnused /\ MarkovUnused /\ AdditivityUnused /\ HybridUnused
    /\ AxiomsUnused
    /\ UniversalUnused
    /\ ApiUnused
    /\ SamplingUnused

SpecPrivacy == InitPrivacy /\ [][PrivacyNext]_vars

\* one UniversalAttributionAxioms and its caller
InitAxioms ==
    /\ AxiomsInit
    /\ ShapleyUnused
    /\ MarkovUnused
    /\ AdditivityUnused
    /\ HybridUnused
    /\ PrivacyUnused
    /\ UniversalUnused
    /\ ApiUnused
    /\ SamplingUnused

SpecAxioms == InitAxioms /\ [][AxiomsNext]_vars

\* one PrivateAttribution shared by concurrent callers
InitPrivacyConcurrent == InitPrivacy

SpecPrivacyConcurrent == InitPrivacyConcurrent /\ [][PrivacyConcurrentNext]_vars

\* one UniversalAttributionAxioms asked for the attribution of two games and
\* of their sum
InitUniversal ==
    /\ AxiomsInit
    /\ UniversalInit
    /\ ShapleyUnused
    /\ MarkovUnused
    /\ AdditivityUnused
    /\ HybridUnused
    /\ PrivacyUnused
    /\ ApiUnused
    /\ SamplingUnused

SpecUniversal == InitUniversal /\ [][UniversalNext]_vars

\* one CompleteUnifiedFramework and its caller
InitApi ==
    /\ ApiInit
    /\ ShapleyUnused
    /\ MarkovUnused
    /\ AdditivityUnused
    /\ HybridUnused
    /\ PrivacyUnused
    /\ AxiomsUnused
    /\ UniversalUnused
    /\ SamplingUnused

SpecApi == InitApi /\ [][ApiNext]_vars

\* one FastShapleyAttribution asked once for monte_carlo_shapley
InitSampling ==
    /\ SamplingInit
    /\ MarkovUnused
    /\ AdditivityUnused
    /\ HybridUnused
    /\ PrivacyUnused
    /\ AxiomsUnused
    /\ UniversalUnused
    /\ ApiUnused

SpecSampling == InitSampling /\ [][SamplingNext]_vars

\* one PrivateAttribution and a caller of all its methods
InitPrivacyFrame == InitPrivacy

SpecPrivacyFrame == InitPrivacyFrame /\ [][PrivacyFrameNext]_vars

\* a caller's inputs and the operations they are passed to
InitInputs ==
    /\ InputsInit
    /\ ShapleyUnused
    /\ AdditivityUnused
    /\ HybridUnused
    /\ UniversalUnused
    /\ ApiUnused
    /\ SamplingUnused

SpecInputs == InitInputs /\ [][InputsNext]_vars

====
